---- MODULE Spec2Model ----
(***************************************************************************)
(* Block storage engine of bitcoinclassic (src/src/BlocksDB.cpp):          *)
(*  - the header chain / chain-tip tracker (Blocks::DB::appendHeader),     *)
(*  - the memory-mapped block and undo file store (Blocks::DBPrivate).     *)
(* Each subsystem has its own specification over the shared variables;    *)
(* the variables of the other subsystem stay at their initial value.      *)
(***************************************************************************)
EXTENDS Integers, Sequences, FiniteSets, TLC

VARIABLES
    \* ---- chain & tip tracker (DBPrivate, BlocksDB_p.h:69-70) ----
    headerChainTips,    \* std::list<CBlockIndex*>: a sequence of blocks
    headersChain,       \* CChain::vChain: sequence, entry h+1 is the block at height h
    pindexBestHeader,   \* global best header pointer
    failedBlocks,       \* blocks whose nStatus has a BLOCK_FAILED_MASK bit set
    hdrCrashed,         \* the process died in appendHeader (null dereference)
    hdrLast,            \* observation of the last appendHeader call
    hdrLin,             \* observation of an in-order run of appends
    \* ---- import of block files (reimportBlockFiles, LoadExternalBlockFile) ----
    importer,           \* the files to import, where the import thread is, the queue
                        \* mapBlocksUnknownParent, and what has been done so far
    \* ---- file store (DBPrivate, BlocksDB_p.h:75-77; globals of main.h) ----
    disk,               \* the files blkNNNNN.dat / revNNNNN.dat: existence and bytes
    vinfoBlockFile,     \* std::vector<CBlockFileInfo>
    nLastBlockFile,     \* index of the file that is active for appends
    datafiles,          \* std::vector<DataFile*>, 0 is nullptr
    revertDatafiles,    \* std::vector<DataFile*>, 0 is nullptr
    heap,               \* the DataFile objects ever allocated
    setDirtyFileInfo,   \* std::set<int>
    views,              \* the buffers (shared_ptr views) the callers hold
    crashed,            \* the process died (fault) or an assertion failed
    opCount,            \* number of calls made so far (they bound the runs)
    written,            \* observation: the records of the completed writes
    resizeState,        \* observation: per file, resized / grown-notification issued since
    \* ---- threads that call the file store concurrently ----
    threads,            \* per thread: where it is in its call and its local variables
    csOwner,            \* the thread that holds cs_LastBlockFile, 0 if none
    readLog,            \* observation: the outcomes of the completed reads
    accessLog,          \* observation: which mutexes were held at the accesses to the
                        \* DataFile tables and to nLastBlockFile
    lockLog,            \* observation: which mutexes a thread held when it acquired a
                        \* mutex or released a buffer
    \* ---- reads at positions the caller supplies ----
    lastRead,           \* observation: the last such read and what it gave
    \* ---- metadata store and block index (Blocks::DB, Blocks::indexMap) ----
    metaDb,             \* the key-value store behind CDBWrapper: the rows it holds
    isReindexing,       \* DBPrivate::isReindexing
    indexMap,           \* Blocks::indexMap: per block hash the CBlockIndex, if any
    persisted,          \* observation: per block hash the CBlockIndex last written
    lastMeta            \* observation: the last call on the store and its result

impVars == <<importer>>

hdrVars == <<headerChainTips, headersChain, pindexBestHeader, failedBlocks,
             hdrCrashed, hdrLast, hdrLin, impVars>>

storeVars == <<disk, vinfoBlockFile, nLastBlockFile, datafiles, revertDatafiles, heap,
               setDirtyFileInfo, views, crashed, opCount, written, resizeState>>

concVars == <<threads, csOwner, readLog, accessLog, lockLog>>

dbVars == <<lastRead, metaDb, isReindexing, indexMap, persisted, lastMeta>>

vars == <<hdrVars, storeVars, concVars, dbVars>>

(***************************************************************************)
(* Bounds of the model                                                     *)
(***************************************************************************)
\* Blocks of the index are numbered 1..MaxBlock (see pprev below).
MaxBlock == 7
\* Number of appendHeader calls in one behaviour.
MaxCalls == 4

(***************************************************************************)
(* The block index: a binary tree of CBlockIndex entries.                  *)
(* Block 1 is genesis, block n has the children 2n and 2n+1, NULL is 0.    *)
(***************************************************************************)
NULL == 0
Genesis == 1
BlockIds == 1..MaxBlock

\* CBlockIndex::pprev
pprev(b) == b \div 2

\* CBlockIndex::nHeight (parent.height + 1, 0 for genesis)
RECURSIVE nHeight(_)
nHeight(b) == IF b <= 1 THEN 0 ELSE 1 + nHeight(pprev(b))

\* CBlockIndex::nChainWork: cumulative work, strictly increasing along a path.
\* An even child adds 1 unit of work and an odd child 2, so that equal-work
\* and greater-work forks both exist.
RECURSIVE nChainWork(_)
nChainWork(b) == IF b <= 1 THEN 1 ELSE nChainWork(pprev(b)) + 1 + (b % 2)

\* CBlockIndex::GetAncestor(height)
RECURSIVE GetAncestor(_, _)
GetAncestor(b, height) ==
    IF b = NULL \/ height > nHeight(b) \/ height < 0 THEN NULL
    ELSE IF nHeight(b) = height THEN b
    ELSE GetAncestor(pprev(b), height)

\* b is a or a descendant of a
IsAncestorOrSelf(a, b) == a # NULL /\ b # NULL /\ GetAncestor(b, nHeight(a)) = a

(***************************************************************************)
(* CChain                                                                  *)
(***************************************************************************)
\* CChain::Tip
ChainTip(chain) == IF Len(chain) = 0 THEN NULL ELSE chain[Len(chain)]

\* CChain::Height
ChainHeight(chain) == Len(chain) - 1

\* CChain::Contains
ChainContains(chain, b) ==
    b # NULL /\ nHeight(b) + 1 <= Len(chain) /\ chain[nHeight(b) + 1] = b

\* The walk of CChain::SetTip: overwrite entries from pindex downwards until
\* an entry already holds the right block.
RECURSIVE SetTipWalk(_, _)
SetTipWalk(chain, pindex) ==
    IF pindex = NULL \/ chain[nHeight(pindex) + 1] = pindex THEN chain
    ELSE SetTipWalk([chain EXCEPT ![nHeight(pindex) + 1] = pindex], pprev(pindex))

\* CChain::SetTip: resize to height+1, then walk.
SetTip(chain, pindex) ==
    IF pindex = NULL THEN <<>>
    ELSE LET n == nHeight(pindex) + 1
             resized == [h \in 1..n |-> IF h <= Len(chain) THEN chain[h] ELSE NULL]
         IN SetTipWalk(resized, pindex)

(***************************************************************************)
(* std::list helpers                                                       *)
(***************************************************************************)
\* list.erase(i): remove the element at position i
EraseAt(list, i) == [k \in 1..(Len(list) - 1) |-> IF k < i THEN list[k] ELSE list[k + 1]]

\* list.push_back
PushBack(list, x) == Append(list, x)

ListSet(list) == {list[k] : k \in 1..Len(list)}

(***************************************************************************)
(* Blocks::DB::appendHeader (BlocksDB.cpp:490-549)                         *)
(***************************************************************************)
\* Lines 499-502: walk from block towards genesis while above the tip's height.
RECURSIVE WalkDown(_, _)
WalkDown(parent, tip) ==
    IF parent # NULL /\ nHeight(parent) > nHeight(tip)
    THEN WalkDown(pprev(parent), tip)
    ELSE parent

\* Lines 497-503: position of the first tip the block is, or descends from; 0 if none.
FirstLoopMatch(tips, block) ==
    LET hits == {i \in 1..Len(tips) : WalkDown(block, tips[i]) = tips[i]}
    IN IF hits = {} THEN 0 ELSE CHOOSE i \in hits : \A j \in hits : i <= j

\* Lines 519-520: position of the first tip that has the block as ancestor; 0 if none.
SecondLoopMatch(tips, block) ==
    LET hits == {i \in 1..Len(tips) : GetAncestor(tips[i], nHeight(block)) = block}
    IN IF hits = {} THEN 0 ELSE CHOOSE i \in hits : \A j \in hits : i <= j

\* (mutation of CapBlock: the validity test inverted)
CapBlock_inverted(block, valid) == IF valid THEN pprev(block) ELSE block

\* Lines 504-505 and 526: an invalid block is replaced by its parent.
CapBlock(block, valid) == IF valid THEN block ELSE pprev(block)

\* (mutation of MoreWork: a tie counts as more work)
MoreWork_orEqual(tip, block) == nChainWork(tip) <= nChainWork(block)

\* Line 542: the work comparison that decides a reorganisation.
MoreWork(tip, block) == nChainWork(tip) < nChainWork(block)

\* Lines 542-548, given the (possibly replaced) block.  outcome "deref" marks the
\* read of Tip()->nChainWork through a null pointer.
FinalCompare(tips, chain, best, block) ==
    IF ChainTip(chain) = NULL
    THEN [tips |-> tips, chain |-> chain, best |-> best, ret |-> FALSE, outcome |-> "deref",
          block |-> block]
    ELSE IF MoreWork(ChainTip(chain), block)
    THEN [tips |-> tips, chain |-> SetTip(chain, block), best |-> block, ret |-> TRUE,
          outcome |-> "ok", block |-> block]
    ELSE [tips |-> tips, chain |-> chain, best |-> best, ret |-> FALSE, outcome |-> "ok",
          block |-> block]

\* Lines 503-515: the block is, or descends from, the tip at position i.
FirstLoopBody(tips, chain, best, block, valid, i) ==
    LET tip == tips[i]
        blk == CapBlock(block, valid)
        tips2 == PushBack(EraseAt(tips, i), blk)
    IN IF tip = ChainTip(chain)
       THEN [tips |-> tips2, chain |-> SetTip(chain, blk), best |-> blk, ret |-> TRUE,
             outcome |-> "ok", block |-> blk]
       ELSE FinalCompare(tips2, chain, best, blk)

\* Lines 520-531: the block is an ancestor of the tip at position i.
SecondLoopBody(tips, chain, best, block, valid, i) ==
    IF valid
    THEN [tips |-> tips, chain |-> chain, best |-> best, ret |-> FALSE, outcome |-> "ok",
          block |-> block]
    ELSE LET modifyingMainChain == ChainContains(chain, tips[i])
             blk == pprev(block)
             tips2 == PushBack(EraseAt(tips, i), blk)
         IN [tips |-> tips2,
             chain |-> IF modifyingMainChain THEN SetTip(chain, blk) ELSE chain,
             best |-> best, ret |-> modifyingMainChain, outcome |-> "ok", block |-> blk]

\* Lines 533-541: neither loop matched.
NewBranch(tips, chain, best, block, valid) ==
    IF valid
    THEN LET tips2 == PushBack(tips, block)
         IN IF ChainHeight(chain) = -1
            THEN [tips |-> tips2, chain |-> SetTip(chain, block), best |-> block,
                  ret |-> TRUE, outcome |-> "ok", block |-> block]
            ELSE FinalCompare(tips2, chain, best, block)
    ELSE FinalCompare(tips, chain, best, block)

\* The whole function: the new tips, chain, best header and the returned value.
appendHeader(tips, chain, best, block, valid) ==
    LET i == FirstLoopMatch(tips, block)
        j == SecondLoopMatch(tips, block)
    IN IF i # 0 THEN FirstLoopBody(tips, chain, best, block, valid, i)
       ELSE IF j # 0 THEN SecondLoopBody(tips, chain, best, block, valid, j)
       ELSE NewBranch(tips, chain, best, block, valid)

(***************************************************************************)
(* The file store: constants                                               *)
(***************************************************************************)
\* main.h constants, scaled down (the source values are 0x8000000, 0x1000000 and
\* 0x100000 bytes); the record header and the checksum keep their real sizes.
MAX_BLOCKFILE_SIZE == 128
BLOCKFILE_CHUNK_SIZE == 32
UNDOFILE_CHUNK_SIZE == 48
\* 4 bytes of magic and 4 bytes of length (BlocksDB.cpp:678-684)
HEADER_SIZE == 8
\* uint256 checksum after an undo record (BlocksDB.cpp:696-697)
CHECKSUM_SIZE == 32
\* Params().MessageStart()
MessageStart == <<250, 191, 181, 218>>

\* The file indexes of the model.
FileIdx == {0, 1}

\* enum BlockType as the useBlk flag of the code: TRUE is ForwardBlock (blk
\* files), FALSE is RevertBlock (rev files).
ForwardBlock == TRUE
RevertBlock == FALSE

(***************************************************************************)
(* Bytes.  A file is a sequence of cells; a cell is <<b>> for the byte b, or  *)
(* <<k, h>> \o data for byte k of the double hash of (h || data): the hash   *)
(* is modelled as collision free.                                           *)
(***************************************************************************)
Byte(b) == <<b>>

Min(a, b) == IF a <= b THEN a ELSE b

Max(a, b) == IF a >= b THEN a ELSE b

Zeros(n) == [k \in 1..n |-> Byte(0)]

\* the value a cell has when it is read as a number
ByteVal(cell) == IF Len(cell) = 1 THEN cell[1] ELSE (cell[1] + cell[2]) % 256

Bytes(cells) == [k \in 1..Len(cells) |-> ByteVal(cells[k])]

\* htole32 followed by memcpy of the 4 bytes
htole32(n) == <<Byte(n % 256), Byte((n \div 256) % 256), Byte((n \div 65536) % 256),
                Byte((n \div 16777216) % 256)>>

\* A uint32_t is kept as its two 16-bit halves, so that its arithmetic is the
\* one of the 32-bit unsigned type.
ToWord(n) == [hi |-> (n \div 65536) % 65536, lo |-> n % 65536]

\* the number a word stands for (below 2^31)
WordVal(a) == a.hi * 65536 + a.lo

\* le32toh of 4 cells
le32toh(c) == [hi |-> ByteVal(c[3]) + 256 * ByteVal(c[4]),
               lo |-> ByteVal(c[1]) + 256 * ByteVal(c[2])]

\* uint32_t + uint32_t: the sum modulo 2^32
Add32(a, b) == [hi |-> (a.hi + b.hi + (a.lo + b.lo) \div 65536) % 65536,
                lo |-> (a.lo + b.lo) % 65536]

\* uint32_t a > size_t n
WordGreater(a, n) ==
    a.hi > n \div 65536 \/ (a.hi = n \div 65536 /\ a.lo > n % 65536)

\* a + b + c > n for the numbers the words stand for (no wrap-around: this is
\* the pointer arithmetic of the returned view)
SumGreater(a, b, c, n) ==
    LET lo == a.lo + b.lo + c.lo
        hi == a.hi + b.hi + c.hi + lo \div 65536
    IN hi > n \div 65536 \/ (hi = n \div 65536 /\ lo % 65536 > n % 65536)

\* CHashWriter: hasher << blockHash; hasher.write(data); GetHash()
HashOf(blockHash, cells) ==
    [k \in 1..CHECKSUM_SIZE |-> <<k, blockHash>> \o Bytes(cells)]

\* the payload of n bytes that starts with the byte `first` (as the test fills it)
Payload(n, first) == [k \in 1..n |-> Byte((first + k - 1) % 256)]

\* cells lo+1..hi of a file (byte offsets lo..hi-1), as far as they exist
Slice(data, lo, hi) ==
    IF hi <= lo THEN <<>>
    ELSE IF hi <= Len(data) THEN SubSeq(data, lo + 1, hi)
    ELSE IF lo < Len(data) THEN SubSeq(data, lo + 1, Len(data)) \o Zeros(hi - Len(data))
    ELSE Zeros(hi - lo) \o <<>>

\* memcpy of cells to offset `at` through a mapping of `limit` bytes: the bytes
\* that fall outside the mapping do not reach the file
Poke(data, at, cells, limit) ==
    LET end == Min(Min(at + Len(cells), limit), Len(data))
    IN IF end <= at THEN data
       ELSE SubSeq(data, 1, at) \o SubSeq(cells, 1, end - at)
                \o SubSeq(data, end + 1, Len(data))

(***************************************************************************)
(* The state of the file store as one record, for the pure operators        *)
(***************************************************************************)
NoFile == [exists |-> FALSE, data |-> <<>>]

\* CBlockFileInfo (nBlocks, nSize, nUndoSize)
NewFileInfo == [nBlocks |-> 0, nSize |-> 0, nUndoSize |-> 0]

\* struct DataFile (BlocksDB_p.h:37-42), plus what its cleanup lambda captured.
\* refs is the use count of the shared_ptr the weak_ptr `buffer` observes.
NewDataFile == [filesize |-> 0, open |-> FALSE, writable |-> FALSE, refs |-> 0,
                deleted |-> FALSE, fileIndex |-> -1, useBlk |-> TRUE]

\* a DataFile after `delete df`: unmapped and freed
DeletedDataFile == [filesize |-> 0, open |-> FALSE, writable |-> FALSE, refs |-> 0,
                    deleted |-> TRUE, fileIndex |-> -1, useBlk |-> TRUE]

\* the DataFile d with n owners of its buffer
WithRefs(d, n) == [filesize |-> d.filesize, open |-> d.open, writable |-> d.writable,
                   refs |-> n, deleted |-> d.deleted, fileIndex |-> d.fileIndex,
                   useBlk |-> d.useBlk]

\* a file on disk with the given content
FileData(cells) == [exists |-> TRUE, data |-> cells]

\* The addresses `new DataFile()` can return.  heap[a] is the DataFile at
\* address a, DeletedDataFile where there is none.  The allocator hands out the
\* lowest free address; which one it is cannot be observed, because the code
\* compares a DataFile pointer only with table entries and those point to live
\* DataFiles.
HeapSize == 6

FreeHeap == [a \in 1..HeapSize |-> DeletedDataFile]

Alloc(heapNow) ==
    IF \A a \in 1..Len(heapNow) : ~heapNow[a].deleted THEN 0
    ELSE CHOOSE a \in 1..Len(heapNow) :
            /\ heapNow[a].deleted
            /\ \A b \in 1..(a - 1) : ~heapNow[b].deleted

Store == [disk |-> disk, vinfo |-> vinfoBlockFile, nLast |-> nLastBlockFile,
          datafiles |-> datafiles, revertDatafiles |-> revertDatafiles, heap |-> heap,
          dirty |-> setDirtyFileInfo]

Table(S, useBlk) == IF useBlk THEN S.datafiles ELSE S.revertDatafiles

WithTable(S, useBlk, list) ==
    IF useBlk THEN [S EXCEPT !.datafiles = list] ELSE [S EXCEPT !.revertDatafiles = list]

\* std::vector::resize with nullptr fill
Resize(list, n) ==
    IF n <= Len(list) THEN SubSeq(list, 1, n)
    ELSE list \o [k \in 1..(n - Len(list)) |-> 0]

\* list[fileIndex], 0 when out of range
Entry(list, fileIndex) ==
    IF fileIndex >= 0 /\ fileIndex < Len(list) THEN list[fileIndex + 1] ELSE 0

FileOf(S, useBlk, fileIndex) == S.disk[useBlk][fileIndex]

(***************************************************************************)
(* Blocks::DBPrivate::mapFile (BlocksDB.cpp:704-748)                       *)
(***************************************************************************)
\* Line 722: the writable bit is limited to the last file.
OpenWritable(S, fileIndex) == fileIndex = S.nLast

\* (mutation of OpenAndMap: a DataFile that is still open is opened again)
OpenAndMap_reopen(S, fileIndex, useBlk, df) ==
    LET f == FileOf(S, useBlk, fileIndex)
    IN IF ~f.exists \/ Len(f.data) = 0
       THEN [S |-> S, buf |-> 0, size |-> 0, exc |-> "ios_failure"]
       ELSE [S |-> [S EXCEPT !.heap[df] =
                       [filesize |-> Len(f.data), open |-> TRUE,
                        writable |-> fileIndex = S.nLast, refs |-> 1,
                        deleted |-> FALSE, fileIndex |-> fileIndex, useBlk |-> useBlk]],
             buf |-> df, size |-> Len(f.data), exc |-> "none"]

\* Lines 718-745 for the DataFile df whose buffer is expired: open and map.
\* boost's mapped_file::open throws ios_base::failure for a file that is
\* already open, that is missing or that is empty.
OpenAndMap(S, fileIndex, useBlk, df) ==
    LET f == FileOf(S, useBlk, fileIndex)
    IN IF S.heap[df].open \/ ~f.exists \/ Len(f.data) = 0
       THEN [S |-> S, buf |-> 0, size |-> 0, exc |-> "ios_failure"]
       ELSE [S |-> [S EXCEPT !.heap[df] =
                       [filesize |-> Len(f.data), open |-> TRUE,
                        writable |-> OpenWritable(S, fileIndex), refs |-> 1,
                        deleted |-> FALSE, fileIndex |-> fileIndex, useBlk |-> useBlk]],
             buf |-> df, size |-> Len(f.data), exc |-> "none"]

\* (mutation of mapFile: the size reported for a cached mapping is the size the
\* file has on disk)
mapFile_statSize(S, fileIndex, useBlk) ==
    LET list == Table(S, useBlk)
        list1 == IF Len(list) <= fileIndex THEN Resize(list, fileIndex + 10) ELSE list
        isNew == list1[fileIndex + 1] = 0
        df == IF isNew THEN Alloc(S.heap) ELSE list1[fileIndex + 1]
        heap1 == IF isNew /\ df # 0 THEN [S.heap EXCEPT ![df] = NewDataFile] ELSE S.heap
        S1 == WithTable([S EXCEPT !.heap = heap1], useBlk,
                        [list1 EXCEPT ![fileIndex + 1] = df])
    IN IF df = 0
       THEN [S |-> WithTable(S, useBlk, list1), buf |-> 0, size |-> 0, exc |-> "bad_alloc"]
       ELSE IF heap1[df].deleted
       THEN [S |-> S1, buf |-> 0, size |-> 0, exc |-> "use_after_free"]
       ELSE IF heap1[df].refs > 0
       THEN [S |-> [S1 EXCEPT !.heap[df] = WithRefs(heap1[df], heap1[df].refs + 1)], buf |-> df,
             size |-> Len(FileOf(S, useBlk, fileIndex).data), exc |-> "none"]
       ELSE OpenAndMap(S1, fileIndex, useBlk, df)

\* The whole function: the new state, the returned buffer (the DataFile that
\* backs it, 0 for a null pointer), *size_out and the exception thrown.
mapFile(S, fileIndex, useBlk) ==
    LET list == Table(S, useBlk)
        list1 == IF Len(list) <= fileIndex THEN Resize(list, fileIndex + 10) ELSE list
        isNew == list1[fileIndex + 1] = 0
        df == IF isNew THEN Alloc(S.heap) ELSE list1[fileIndex + 1]
        heap1 == IF isNew /\ df # 0 THEN [S.heap EXCEPT ![df] = NewDataFile] ELSE S.heap
        S1 == WithTable([S EXCEPT !.heap = heap1], useBlk,
                        [list1 EXCEPT ![fileIndex + 1] = df])
    IN IF df = 0
       THEN [S |-> WithTable(S, useBlk, list1), buf |-> 0, size |-> 0, exc |-> "bad_alloc"]
       ELSE IF heap1[df].deleted
       THEN [S |-> S1, buf |-> 0, size |-> 0, exc |-> "use_after_free"]
       ELSE IF heap1[df].refs > 0
       THEN [S |-> [S1 EXCEPT !.heap[df] = WithRefs(heap1[df], heap1[df].refs + 1)], buf |-> df,
             size |-> heap1[df].filesize, exc |-> "none"]
       ELSE OpenAndMap(S1, fileIndex, useBlk, df)

\* (mutation of CleanupEntry: the entry is cleared without comparing it)
CleanupEntry_always(list, fileIndex, df) == [list EXCEPT ![fileIndex + 1] = 0]

\* Lines 731-734 of the cleanup lambda: invalidate the entry if it is still ours.
CleanupEntry(list, fileIndex, df) ==
    IF list[fileIndex + 1] = df THEN [list EXCEPT ![fileIndex + 1] = 0] ELSE list

\* The cleanup lambda (lines 726-738), run when the last owner of the buffer goes.
cleanupLambda(S, df) ==
    LET fileIndex == S.heap[df].fileIndex
        useBlk == S.heap[df].useBlk
        list == Table(S, useBlk)
    IN IF ~(fileIndex >= 0 /\ fileIndex < Len(list))
       THEN [S |-> S, fault |-> "assert"]
       ELSE [S |-> [WithTable(S, useBlk, CleanupEntry(list, fileIndex, df))
                    EXCEPT !.heap[df] = DeletedDataFile],
             fault |-> "none"]

\* The atomic decrement of the use count of the buffer backed by df.
DecRef(S, df) == [S EXCEPT !.heap[df] = WithRefs(S.heap[df], S.heap[df].refs - 1)]

\* ~shared_ptr<char> in one piece: drop one owner of the buffer backed by df;
\* the last owner runs the cleanup lambda.
Release(S, df) ==
    IF df = 0 THEN [S |-> S, fault |-> "none"]
    ELSE IF DecRef(S, df).heap[df].refs = 0 THEN cleanupLambda(DecRef(S, df), df)
    ELSE [S |-> DecRef(S, df), fault |-> "none"]

\* (mutation of GrownEntry: the notification leaves the entry in place)
GrownEntry_kept(list, fileIndex) == list

\* (mutation of GrownEntry: every entry of the table is invalidated)
GrownEntry_all(list, fileIndex) == Resize(<<>>, Len(list))

\* Lines 753-760 / 766-773: unconditionally invalidate the pointer.
GrownEntry(list, fileIndex) ==
    IF fileIndex < 0 \/ fileIndex >= Len(list) THEN list
    ELSE [list EXCEPT ![fileIndex + 1] = 0]

\* Blocks::DBPrivate::fileHasGrown (BlocksDB.cpp:751-761)
fileHasGrown(S, fileIndex) ==
    [S EXCEPT !.datafiles = GrownEntry(S.datafiles, fileIndex)]

\* Blocks::DBPrivate::revertFileHasGrown (BlocksDB.cpp:764-774)
revertFileHasGrown(S, fileIndex) ==
    [S EXCEPT !.revertDatafiles = GrownEntry(S.revertDatafiles, fileIndex)]

(***************************************************************************)
(* Blocks::DBPrivate::writeBlock (BlocksDB.cpp:628-702)                    *)
(***************************************************************************)
\* std::vector<CBlockFileInfo>::resize
ResizeInfo(infos, n) ==
    IF n <= Len(infos) THEN SubSeq(infos, 1, n)
    ELSE infos \o [k \in 1..(n - Len(infos)) |-> NewFileInfo]

\* boost::filesystem::resize_file: the file gets n bytes, new ones are zero
ResizeTo(data, n) ==
    IF n <= Len(data) THEN SubSeq(data, 1, n) ELSE data \o Zeros(n - Len(data))

ChunkSize(useBlk) == IF useBlk THEN BLOCKFILE_CHUNK_SIZE ELSE UNDOFILE_CHUNK_SIZE

\* Lines 636-643: is a new block file started, and which file is the last one.
FirstFile(S) == Len(S.vinfo) <= S.nLast

\* (mutation of PreviousFull: the last file is never taken as full)
PreviousFull_never(S, useBlk, blockSize) == FALSE

PreviousFull(S, useBlk, blockSize) ==
    /\ ~FirstFile(S)
    /\ useBlk
    /\ S.vinfo[S.nLast + 1].nSize + blockSize + HEADER_SIZE > MAX_BLOCKFILE_SIZE

\* Lines 634-659: roll over, choose the file, create it when it is new.
StartFile(S, fileIndex, useBlk, blockSize) ==
    LET newFile == FirstFile(S) \/ PreviousFull(S, useBlk, blockSize)
        nLast1 == IF PreviousFull(S, useBlk, blockSize) THEN S.nLast + 1 ELSE S.nLast
        vinfo1 == IF newFile THEN ResizeInfo(S.vinfo, nLast1 + 1) ELSE S.vinfo
        nFile == IF useBlk THEN nLast1 ELSE fileIndex
        create == newFile \/ (~useBlk /\ vinfo1[nFile + 1].nUndoSize = 0)
        newFileSize == Max(blockSize, ChunkSize(useBlk))
    IN [S |-> [S EXCEPT !.vinfo = vinfo1, !.nLast = nLast1,
                        !.disk[useBlk][nFile] =
                            IF create THEN FileData(Zeros(newFileSize) \o <<>>) ELSE @],
        nFile |-> nFile]

\* Line 666: the room check.
NeedsResize(posInFile, blockSize, fileSize) ==
    posInFile + blockSize + HEADER_SIZE > fileSize

\* Lines 669-674: grow the file by one chunk and notify.
GrowFile(S, nFile, useBlk, fileSize) ==
    LET newFileSize == fileSize + ChunkSize(useBlk)
        S1 == [S EXCEPT !.disk[useBlk][nFile] =
                  FileData(ResizeTo(FileOf(S, useBlk, nFile).data, newFileSize))]
    IN IF useBlk THEN fileHasGrown(S1, nFile) ELSE revertFileHasGrown(S1, nFile)

\* Lines 666-676: grow, notify, map again.  The buffer of the old mapping is
\* released by the assignment (or by the unwinding), after the second mapFile.
GrowAndRemap(S, nFile, useBlk, m) ==
    LET m2 == mapFile(GrowFile(S, nFile, useBlk, m.size), nFile, useBlk)
        rel == Release(m2.S, m.buf)
    IN [S |-> rel.S, buf |-> m2.buf, size |-> m2.size, exc |-> m2.exc]

\* (mutation of PayloadPos: the position of the header is returned)
PayloadPos_header(posInFile) == posInFile

\* Line 678: pos.nPos
PayloadPos(posInFile) == posInFile + HEADER_SIZE

\* (mutation of Advance: the header is not counted)
Advance_noHeader(blockSize, useBlk) ==
    blockSize + (IF useBlk THEN 0 ELSE CHECKSUM_SIZE)

\* Lines 697-699: what the write adds to nSize or nUndoSize
Advance(blockSize, useBlk) ==
    blockSize + HEADER_SIZE + (IF useBlk THEN 0 ELSE CHECKSUM_SIZE)

\* Lines 680-696: the bytes written at posInFile
RecordBytes(block, useBlk, blockHash) ==
    [k \in 1..4 |-> Byte(MessageStart[k])] \o htole32(Len(block)) \o block
        \o (IF useBlk THEN <<>> ELSE HashOf(blockHash, block))

\* Lines 678-701 through the mapping buf of fileSize bytes.  A store through a
\* read-only mapping faults.  A store beyond the end of the mapping is undefined
\* (overflow): it faults, or the bytes land outside the file and are not kept;
\* the result describes the second outcome.
StoreRecord(S, nFile, useBlk, block, blockHash, buf, fileSize) ==
    LET info == S.vinfo[nFile + 1]
        posInFile == IF useBlk THEN info.nSize ELSE info.nUndoSize
        rec == RecordBytes(block, useBlk, blockHash)
        overflow == posInFile + Len(rec) > fileSize
        next == posInFile + Advance(Len(block), useBlk)
        info1 == IF useBlk
                 THEN [nBlocks |-> info.nBlocks + 1, nSize |-> next,
                       nUndoSize |-> info.nUndoSize]
                 ELSE [nBlocks |-> info.nBlocks, nSize |-> info.nSize, nUndoSize |-> next]
    IN IF ~S.heap[buf].writable
       THEN [S |-> S, fault |-> "segv", exc |-> "none", buf |-> buf, nFile |-> nFile,
             nPos |-> 0, size |-> 0, overflow |-> FALSE]
       ELSE [S |-> [S EXCEPT !.disk[useBlk][nFile] =
                                FileData(Poke(FileOf(S, useBlk, nFile).data, posInFile, rec,
                                              fileSize)),
                            !.vinfo[nFile + 1] = info1,
                            !.dirty = @ \cup {nFile}],
             fault |-> "none", exc |-> "none", buf |-> buf, nFile |-> nFile,
             nPos |-> PayloadPos(posInFile), size |-> Len(block), overflow |-> overflow]

\* The whole function.  fileIndex is pos.nFile of the caller (used for undo
\* records only), blockHash is 0 for a null pointer.  The result holds the new
\* state, pos as (nFile, nPos), the DataFile behind the returned buffer, the
\* exception thrown and the fault raised.
writeBlock(S, block, fileIndex, useBlk, blockHash) ==
    LET st == StartFile(S, fileIndex, useBlk, Len(block))
        m1 == mapFile(st.S, st.nFile, useBlk)
        info == st.S.vinfo[st.nFile + 1]
        posInFile == IF useBlk THEN info.nSize ELSE info.nUndoSize
        m == IF m1.exc = "none" /\ NeedsResize(posInFile, Len(block), m1.size)
             THEN GrowAndRemap(m1.S, st.nFile, useBlk, m1)
             ELSE m1
    IN IF m.exc # "none"
       THEN [S |-> m.S, fault |-> IF m.exc = "use_after_free" THEN "segv" ELSE "none",
             exc |-> m.exc, buf |-> 0, nFile |-> st.nFile, nPos |-> 0, size |-> 0,
             overflow |-> FALSE]
       ELSE StoreRecord(m.S, st.nFile, useBlk, block, blockHash, m.buf, m.size)

(***************************************************************************)
(* Blocks::DBPrivate::loadBlock (BlocksDB.cpp:601-626)                     *)
(***************************************************************************)
\* An exception leaves the function: the local buffer is released on the way.
Thrown(S, buf, what) ==
    [S |-> Release(S, buf).S, exc |-> what, buf |-> 0, lo |-> 0, hi |-> 0, data |-> <<>>,
     beyond |-> FALSE]

\* Lines 617-622
ChecksumOk(blockHash, payload, stored) == stored = HashOf(blockHash, payload)

\* Lines 609-625 on the mapped bytes: the checks, the checksum, the payload.
\* blockHash is 0 for a null pointer (a body), the parent hash for an undo record.
\* The sum of line 612 is made in unsigned 32-bit arithmetic.  beyond tells that
\* the bytes [nPos, nPos + blockSize + extra) do not all lie in the mapping
\* although the checks passed: the view that is returned for a body ends after
\* the mapping, and the checksum of an undo record is computed and read from
\* memory after the mapping (undefined: `data` is what lies inside).
ReadRecord(mapped, fileSize, nPos, blockHash) ==
    LET blockSize == le32toh(Slice(mapped, nPos - 4, nPos))
        extra == IF blockHash # 0 THEN CHECKSUM_SIZE ELSE 0
        checked == Add32(Add32(ToWord(nPos), blockSize), ToWord(extra))
        beyond == SumGreater(ToWord(nPos), blockSize, ToWord(extra), fileSize)
        payload == Slice(mapped, nPos, nPos + WordVal(blockSize))
        stored == Slice(mapped, nPos + WordVal(blockSize),
                        nPos + WordVal(blockSize) + CHECKSUM_SIZE)
        NoPayload(what) == [exc |-> what, lo |-> 0, hi |-> 0, data |-> <<>>,
                            beyond |-> FALSE]
    IN IF nPos >= fileSize THEN NoPayload("position outside of file")
       ELSE IF WordGreater(checked, fileSize)
       THEN NoPayload("block sized bigger than file")
       ELSE IF beyond
       THEN [exc |-> "none", lo |-> nPos, hi |-> fileSize,
             data |-> Slice(mapped, nPos, fileSize), beyond |-> TRUE]
       ELSE IF blockHash # 0 /\ ~ChecksumOk(blockHash, payload, stored)
       THEN NoPayload("BlocksDB::loadUndoBlock, checkum mismatch")
       ELSE [exc |-> "none", lo |-> nPos, hi |-> nPos + WordVal(blockSize),
             data |-> payload, beyond |-> FALSE]

\* The bytes a mapping of fileSize bytes shows of a file
Mapped(S, nFile, useBlk, fileSize) == Slice(FileOf(S, useBlk, nFile).data, 0, fileSize)

\* The whole function.
loadBlock(S, nFile, nPos, useBlk, blockHash) ==
    IF nPos < 4 THEN Thrown(S, 0, "Blocks::loadBlock got Database corruption")
    ELSE LET m == mapFile(S, nFile, useBlk)
             r == ReadRecord(Mapped(m.S, nFile, useBlk, m.size), m.size, nPos, blockHash)
         IN IF m.exc # "none" THEN Thrown(m.S, 0, m.exc)
            ELSE IF m.buf = 0 THEN Thrown(m.S, 0, "Failed to memmap block")
            ELSE IF r.exc # "none" THEN Thrown(m.S, m.buf, r.exc)
            ELSE [S |-> m.S, exc |-> IF r.beyond /\ blockHash # 0 THEN "undefined" ELSE "none",
                  buf |-> m.buf, lo |-> r.lo, hi |-> r.hi,
                  data |-> r.data, beyond |-> r.beyond]

\* What the build can make of a call.  The checksum of lines 616-623 computed
\* over memory after the mapping is undefined: the read faults, or it yields
\* bytes whose hash differs from the stored one and line 623 throws.
Outcomes(r) ==
    IF r.exc = "undefined"
    THEN {[r EXCEPT !.exc = "segv"],
          Thrown(r.S, r.buf, "BlocksDB::loadUndoBlock, checkum mismatch")}
    ELSE {r}

(***************************************************************************)
(* Initial states and observations of the file store                       *)
(***************************************************************************)
\* Bounds of the mapFile-level specification
MaxMaps == 2
MaxResizes == 1
\* Number of buffers the callers hold at one time
MaxViews == 2
\* Size of the files that exist at the start of the mapFile-level runs, and the
\* bytes an external writer appends to them (the test's writeToFiles)
InitFileSize == 4
ExtendBy == 2

ZeroCounts == [nMaps |-> 0, nResizes |-> 0, nWrites |-> 0]

\* The threads of the thread-level specification
Threads == {1, 2}

\* A thread outside any call.  pc is its position, buf the DataFile behind the
\* buffer it holds and size the size it got with it, drop the DataFile whose
\* buffer it is releasing and next the position it continues at after that;
\* the other fields are the arguments of its call.
IdleThread == [pc |-> "idle", next |-> "idle", buf |-> 0, size |-> 0, drop |-> 0,
               useBlk |-> TRUE, nFile |-> 0, nPos |-> 0, block |-> <<>>, hash |-> 0,
               seq |-> 0]

ConcIdle ==
    /\ threads = [t \in Threads |-> IdleThread]
    /\ csOwner = 0
    /\ readLog = {}
    /\ accessLog = {}
    /\ lockLog = {}

\* An access to the DataFile tables ("tables") or to nLastBlockFile, by the
\* function that makes it, with the mutexes its thread holds at that point:
\* "lock" is DBPrivate::lock, "cs_LastBlockFile" the critical section of main.
Access(site, object, held) == [site |-> site, object |-> object, held |-> held]

Logged(records) == accessLog' = accessLog \cup records

\* mapFile (lines 704-748) takes `lock` at line 710, before it touches the
\* table; it reads nLastBlockFile (line 722) when it has to open the file.
MapFileAccesses(S, fileIndex, useBlk, held) ==
    LET df == Entry(Table(S, useBlk), fileIndex)
        opens == df = 0 \/ S.heap[df].refs = 0
    IN {Access("mapFile", "tables", held \cup {"lock"})}
          \cup (IF opens THEN {Access("mapFile", "nLastBlockFile", held \cup {"lock"})}
                ELSE {})

\* writeBlock, lines 632-645: LOCK(cs_LastBlockFile), then the comparison with
\* nLastBlockFile and its increment; `lock` is taken at line 649 only.
RollOverAccesses == {Access("writeBlock", "nLastBlockFile", {"cs_LastBlockFile"})}

\* writeBlock, lines 670-674: fileHasGrown inside the scope of the lock_guard
GrowAccesses == {Access("fileHasGrown", "tables", {"cs_LastBlockFile", "lock"})}

\* The cleanup lambda, lines 727-735: the lock_guard of line 728
CleanupAccesses(held) == {Access("cleanupLambda", "tables", held \cup {"lock"})}

\* A thread acquires the mutex `what` ("lock" or "cs_LastBlockFile"), or lets go
\* of a buffer ("view"), in the function `site`, while it holds the mutexes `held`
LockEvent(site, what, held) == [site |-> site, what |-> what, held |-> held]

LockLogged(events) == lockLog' = lockLog \cup events

\* (mutation of ReleaseHeld: the second mapFile of writeBlock is called inside
\* the scope of the lock_guard of line 671)
ReleaseHeld_inScope(held) == held \cup {"lock"}

\* The mutexes held where a buffer is released: the assignment of line 676 and
\* the unwinding come after the scope of the lock_guard has ended (line 674),
\* mapFile and loadBlock return their buffer (lines 747, 625)
ReleaseHeld(held) == held

\* CacheAllBlockInfos, lines 385-386: the two resize calls, no mutex is taken
\* in the function
CacheAccesses == {Access("CacheAllBlockInfos", "tables", {})}

\* No read has been made
NoRead == [n |-> 0]

(***************************************************************************)
(* The metadata store and the block index map.  The hash of a block is its  *)
(* number; the parent of a block is pprev, as in the chain tracker.         *)
(***************************************************************************)
\* The blocks that can be persisted: genesis, its child 2 and its grandchild 4
MetaBlocks == {1, 2, 4}

\* The calls on the metadata store in a run
MaxMetaCalls == 3

\* The order in which the cursor of the store yields the block index rows: the
\* order of the hashes, which is unrelated to the ancestry (block 2 comes
\* before its parent, block 4 after it)
HashOrder == <<2, 1, 4>>

\* a key that is not in the store, a map slot without an entry
NoRow == [present |-> FALSE]

\* A store without keys: DB_REINDEX_FLAG, DB_LAST_BLOCK, (DB_BLOCK_FILES, i) and
\* (DB_BLOCK_INDEX, hash)
EmptyDb == [reindex |-> FALSE, last |-> -1, files |-> [i \in FileIdx |-> NoRow],
            rows |-> [h \in MetaBlocks |-> NoRow]]

\* CDBWrapper::Exists(DB_REINDEX_FLAG)
Exists(db) == db.reindex

\* new CBlockIndex(): every field null
NullBlockIndex ==
    [present |-> TRUE, pprev |-> NULL, pskip |-> NULL, nHeight |-> 0, nFile |-> 0,
     nDataPos |-> 0, nUndoPos |-> 0, nVersion |-> 0, hashMerkleRoot |-> 0, nTime |-> 0,
     nBits |-> 0, nNonce |-> 0, nStatus |-> 0, nTx |-> 0]

EmptyIndexMap == [h \in MetaBlocks |-> NoRow]

\* No call has been made on the store
NoMetaCall == [n |-> 0, call |-> "none", arg |-> FALSE, ret |-> FALSE, fresh |-> FALSE,
               before |-> "none", unreadable |-> {}]

DbIdle ==
    /\ lastRead = NoRead
    /\ metaDb = EmptyDb
    /\ isReindexing = FALSE
    /\ indexMap = EmptyIndexMap
    /\ persisted = EmptyIndexMap
    /\ lastMeta = NoMetaCall

\* A fresh DBPrivate, fresh globals, no file on disk.
StoreIdle ==
    /\ disk = [u \in BOOLEAN |-> [i \in FileIdx |-> NoFile]]
    /\ vinfoBlockFile = <<>>
    /\ nLastBlockFile = 0
    /\ datafiles = <<>>
    /\ revertDatafiles = <<>>
    /\ heap = FreeHeap
    /\ setDirtyFileInfo = {}
    /\ views = <<>>
    /\ crashed = FALSE
    /\ opCount = ZeroCounts
    /\ written = {}
    /\ resizeState = [u \in BOOLEAN |-> [i \in FileIdx |-> "none"]]
    /\ ConcIdle
    /\ DbIdle

SetStore(S) ==
    /\ disk' = S.disk
    /\ vinfoBlockFile' = S.vinfo
    /\ nLastBlockFile' = S.nLast
    /\ datafiles' = S.datafiles
    /\ revertDatafiles' = S.revertDatafiles
    /\ heap' = S.heap
    /\ setDirtyFileInfo' = S.dirty

\* The buffers the callers hold form a multiset; it is kept as a list ordered by
\* (df, lo, hi) so that the order in which they were obtained is not part of
\* the state.
ViewBefore(a, b) ==
    \/ a.df < b.df
    \/ a.df = b.df /\ a.lo < b.lo
    \/ a.df = b.df /\ a.lo = b.lo /\ a.hi <= b.hi

HoldView(held, v) ==
    LET n == Cardinality({k \in 1..Len(held) : ViewBefore(held[k], v)})
    IN SubSeq(held, 1, n) \o <<v>> \o SubSeq(held, n + 1, Len(held))

RemoveAt(seq, k) == SubSeq(seq, 1, k - 1) \o SubSeq(seq, k + 1, Len(seq))

(***************************************************************************)
(* Observations (history variables; they do not influence the program)     *)
(***************************************************************************)
NoCall == [n |-> 0, block |-> NULL, valid |-> TRUE, ret |-> FALSE,
           tipBefore |-> NULL, tipsBefore |-> <<>>, chainBefore |-> <<>>]

LinInit == [ok |-> TRUE, k |-> -1, trues |-> 0, top |-> NULL]

\* An in-order run: genesis first, then each block valid and built directly on
\* the previously appended one.  k counts the blocks after genesis, trues the
\* calls among them that returned true.
LinStep(lin, block, valid, ret) ==
    IF ~lin.ok THEN lin
    ELSE IF lin.k = -1
    THEN IF block = Genesis /\ valid
         THEN [ok |-> TRUE, k |-> 0, trues |-> 0, top |-> block]
         ELSE [lin EXCEPT !.ok = FALSE]
    ELSE IF valid /\ pprev(block) = lin.top
    THEN [ok |-> TRUE, k |-> lin.k + 1, trues |-> lin.trues + (IF ret THEN 1 ELSE 0),
          top |-> block]
    ELSE [lin EXCEPT !.ok = FALSE]

(***************************************************************************)
(* Actions of the chain tracker                                            *)
(***************************************************************************)
\* No import thread has been started
NoImport == [phase |-> "none"]

ChainIdle ==
    /\ headerChainTips = <<>>
    /\ headersChain = <<>>
    /\ pindexBestHeader = NULL
    /\ failedBlocks = {}
    /\ hdrCrashed = FALSE
    /\ hdrLast = NoCall
    /\ hdrLin = LinInit

HdrIdle == ChainIdle /\ importer = NoImport

HdrInit == HdrIdle /\ StoreIdle

\* The caller has (or has not) marked the block failed, then calls appendHeader.
\* The assert of line 496 excludes a failed genesis.
AppendHeader(block, markFailed) ==
    /\ ~hdrCrashed
    /\ hdrLast.n < MaxCalls
    /\ UNCHANGED <<storeVars, concVars, dbVars, impVars>>
    /\ markFailed => block # Genesis
    /\ LET failed2 == IF markFailed THEN failedBlocks \cup {block} ELSE failedBlocks
           valid == block \notin failed2
           r == appendHeader(headerChainTips, headersChain, pindexBestHeader, block, valid)
           obs == [n |-> hdrLast.n + 1, block |-> block, valid |-> valid, ret |-> r.ret,
                   tipBefore |-> ChainTip(headersChain), tipsBefore |-> headerChainTips,
                   chainBefore |-> headersChain]
       IN /\ failedBlocks' = failed2
          /\ \/ /\ r.outcome = "ok"
                /\ headerChainTips' = r.tips
                /\ headersChain' = r.chain
                /\ pindexBestHeader' = r.best
                /\ hdrCrashed' = FALSE
                /\ hdrLast' = obs
                /\ hdrLin' = LinStep(hdrLin, block, valid, r.ret)
             \* Tip() is null at line 542: the read of Tip()->nChainWork faults.
             \/ /\ r.outcome = "deref"
                /\ hdrCrashed' = TRUE
                /\ headerChainTips' = r.tips
                /\ UNCHANGED <<headersChain, pindexBestHeader>>
                /\ hdrLast' = obs
                /\ hdrLin' = [hdrLin EXCEPT !.ok = FALSE]

HdrNext == \E block \in BlockIds, markFailed \in BOOLEAN : AppendHeader(block, markFailed)

SpecChain == HdrInit /\ [][HdrNext]_vars

(***************************************************************************)
(* mapFile-level specification: the calls of mapFile_extendFile_test       *)
(***************************************************************************)
\* The files blk0000i.dat and rev0000i.dat exist, as writeToFiles creates them.
MapInit ==
    /\ HdrIdle
    /\ disk = [u \in BOOLEAN |-> [i \in FileIdx |->
                  FileData([k \in 1..InitFileSize |-> Byte(i % 128)])]]
    /\ vinfoBlockFile = <<>>
    /\ nLastBlockFile = 0
    /\ datafiles = <<>>
    /\ revertDatafiles = <<>>
    /\ heap = FreeHeap
    /\ setDirtyFileInfo = {}
    /\ views = <<>>
    /\ crashed = FALSE
    /\ opCount = ZeroCounts
    /\ written = {}
    /\ resizeState = [u \in BOOLEAN |-> [i \in FileIdx |-> "none"]]
    /\ ConcIdle
    /\ DbIdle

\* A caller maps a file and keeps the buffer.
MapFileCall(fileIndex, useBlk) ==
    /\ ~crashed
    /\ opCount.nMaps < MaxMaps
    /\ Len(views) < MaxViews
    /\ LET r == mapFile(Store, fileIndex, useBlk)
       IN /\ r.exc # "bad_alloc"
          /\ SetStore(r.S)
          /\ views' = IF r.buf # 0
                      THEN HoldView(views, [df |-> r.buf, lo |-> 0, hi |-> r.size])
                      ELSE views
          /\ crashed' = (r.exc = "use_after_free")
          /\ opCount' = [opCount EXCEPT !.nMaps = @ + 1]
    /\ UNCHANGED <<written, resizeState, hdrVars, concVars, dbVars>>

\* A caller lets go of the k-th buffer it holds.
ReleaseView(k) ==
    /\ ~crashed
    /\ k \in 1..Len(views)
    /\ LET df == views[k].df
           r == Release(Store, df)
       IN /\ SetStore(r.S)
          /\ views' = RemoveAt(views, k)
          /\ crashed' = (r.fault # "none")
    /\ UNCHANGED <<opCount, written, resizeState, hdrVars, concVars, dbVars>>

\* Another writer extends a file on disk (writeToFiles of the test).
ResizeFile(fileIndex, useBlk) ==
    /\ ~crashed
    /\ opCount.nResizes < MaxResizes
    /\ disk[useBlk][fileIndex].exists
    /\ disk' = [disk EXCEPT ![useBlk][fileIndex] =
                   FileData(disk[useBlk][fileIndex].data
                            \o [k \in 1..ExtendBy |-> Byte(fileIndex % 128)])]
    /\ resizeState' = [resizeState EXCEPT ![useBlk][fileIndex] = "resized"]
    /\ opCount' = [opCount EXCEPT !.nResizes = @ + 1]
    /\ UNCHANGED <<vinfoBlockFile, nLastBlockFile, datafiles, revertDatafiles, heap,
                   setDirtyFileInfo, views, crashed, written, hdrVars, concVars, dbVars>>

Notified(state) == IF state = "resized" THEN "notified" ELSE state

\* pvt.fileHasGrown(i), with any index
FileHasGrownCall(fileIndex) ==
    /\ ~crashed
    /\ SetStore(fileHasGrown(Store, fileIndex))
    /\ resizeState' = IF fileIndex \in FileIdx
                      THEN [resizeState EXCEPT ![TRUE][fileIndex] = Notified(@)]
                      ELSE resizeState
    /\ UNCHANGED <<views, crashed, opCount, written, hdrVars, concVars, dbVars>>

\* pvt.revertFileHasGrown(i), with any index
RevertFileHasGrownCall(fileIndex) ==
    /\ ~crashed
    /\ SetStore(revertFileHasGrown(Store, fileIndex))
    /\ resizeState' = IF fileIndex \in FileIdx
                      THEN [resizeState EXCEPT ![FALSE][fileIndex] = Notified(@)]
                      ELSE resizeState
    /\ UNCHANGED <<views, crashed, opCount, written, hdrVars, concVars, dbVars>>

\* the indexes the notifications are called with: valid ones and invalid ones
NotifyArgs == FileIdx \cup {-1, 12}

MapNext ==
    \/ \E i \in FileIdx, u \in BOOLEAN : MapFileCall(i, u)
    \/ \E k \in 1..MaxViews : ReleaseView(k)
    \/ \E i \in FileIdx, u \in BOOLEAN : ResizeFile(i, u)
    \/ \E i \in NotifyArgs : FileHasGrownCall(i)
    \/ \E i \in NotifyArgs : RevertFileHasGrownCall(i)

SpecMap == MapInit /\ [][MapNext]_vars

(***************************************************************************)
(* Record-level specification: writeBlock, writeUndoBlock, loadBlock and   *)
(* loadUndoBlock of Blocks::DB, called from one thread on a fresh store     *)
(***************************************************************************)
\* Bounds: the number of writes of a run
MaxWrites == 3
\* The number of buffers the callers of the record-level operations keep
MaxHeld == 1
\* The payload sizes and parent hashes the callers use.  A body of 40 bytes
\* does not fit one chunk of a block file, an undo record of 10 bytes and its
\* header fit one chunk of an undo file but its checksum does not.
BodySizes == {20, 40}
UndoSizes == {2, 10}
Hashes == {1, 2}
FirstByte == 1

StoreInit == HdrIdle /\ StoreIdle

\* What a completed write adds to the observation `written`
WrittenRecord(seq, r, useBlk, block, blockHash) ==
    [seq |-> seq, useBlk |-> useBlk, file |-> r.nFile, pos |-> r.nPos,
     data |-> block, hash |-> blockHash, overflow |-> r.overflow]

\* The caller gets the buffer [lo, hi) of DataFile buf in state S: it keeps it
\* (keep), or lets it go at the end of the calling statement.
TakeBuffer(S, buf, lo, hi, keep) ==
    /\ keep => Len(views) < MaxHeld
    /\ SetStore(IF keep THEN S ELSE Release(S, buf).S)
    /\ views' = IF keep THEN HoldView(views, [df |-> buf, lo |-> lo, hi |-> hi]) ELSE views
    /\ crashed' = (~keep /\ Release(S, buf).fault # "none")

\* The call ended without a buffer: by an exception or by a fault.
NoBuffer(S, fault) ==
    /\ SetStore(S)
    /\ views' = views
    /\ crashed' = fault

\* The caller side of a write: the state, the buffer and the position it got.
\* A store beyond the mapping may also end the process.
WriteDone(r, useBlk, block, blockHash) ==
    /\ r.exc # "bad_alloc"
    /\ IF r.fault = "none" /\ r.exc = "none"
       THEN \/ /\ \E keep \in BOOLEAN :
                     TakeBuffer(r.S, r.buf, r.nPos, r.nPos + r.size, keep)
               /\ written' = written \cup {WrittenRecord(opCount.nWrites + 1, r, useBlk, block, blockHash)}
            \/ /\ r.overflow
               /\ NoBuffer(r.S, TRUE)
               /\ written' = written
       ELSE /\ NoBuffer(r.S, r.fault # "none")
            /\ written' = written
    /\ opCount' = [opCount EXCEPT !.nWrites = @ + 1]
    /\ UNCHANGED <<resizeState, hdrVars, concVars, dbVars>>

\* Blocks::DB::writeBlock (BlocksDB.cpp:474-478)
WriteBlock(size) ==
    /\ ~crashed
    /\ opCount.nWrites < MaxWrites
    /\ size < MAX_BLOCKFILE_SIZE - HEADER_SIZE
    /\ StartFile(Store, 0, ForwardBlock, size).nFile \in FileIdx
    /\ LET block == Payload(size, FirstByte)
           r == writeBlock(Store, block, 0, ForwardBlock, 0)
       IN WriteDone(r, ForwardBlock, block, 0)

\* Blocks::DB::writeUndoBlock (BlocksDB.cpp:480-488), for a block file that has
\* its CBlockFileInfo
WriteUndoBlock(size, blockHash, fileIndex) ==
    /\ ~crashed
    /\ opCount.nWrites < MaxWrites
    /\ size > 0
    /\ fileIndex < Len(vinfoBlockFile)
    /\ LET block == Payload(size, FirstByte)
           r == writeBlock(Store, block, fileIndex, RevertBlock, blockHash)
       IN WriteDone(r, RevertBlock, block, blockHash)

\* The caller side of a read
LoadResult(r) ==
    /\ r.exc # "bad_alloc"
    /\ IF r.exc = "none"
       THEN \E keep \in BOOLEAN : TakeBuffer(r.S, r.buf, r.lo, r.hi, keep)
       ELSE NoBuffer(r.S, r.exc \in {"use_after_free", "segv"})

LoadDone(r) ==
    /\ LoadResult(r)
    /\ UNCHANGED <<opCount, written, resizeState, hdrVars, concVars, dbVars>>

\* Blocks::DB::loadBlock (BlocksDB.cpp:451-454) with a position a write returned
LoadBlock(w) ==
    /\ ~crashed
    /\ w.useBlk
    /\ \E r \in Outcomes(loadBlock(Store, w.file, w.pos, ForwardBlock, 0)) : LoadDone(r)

\* Blocks::DB::loadUndoBlock (BlocksDB.cpp:456-459) with a position a write
\* returned and any parent hash
LoadUndoBlock(w, origBlockHash) ==
    /\ ~crashed
    /\ ~w.useBlk
    /\ \E r \in Outcomes(loadBlock(Store, w.file, w.pos, RevertBlock, origBlockHash)) :
          LoadDone(r)

StoreNext ==
    \/ \E size \in BodySizes : WriteBlock(size)
    \/ \E size \in UndoSizes, h \in Hashes, i \in FileIdx : WriteUndoBlock(size, h, i)
    \/ \E w \in written : LoadBlock(w)
    \/ \E w \in written, h \in Hashes : LoadUndoBlock(w, h)
    \/ \E k \in 1..MaxHeld : ReleaseView(k)

SpecStore == StoreInit /\ [][StoreNext]_vars

(***************************************************************************)
(* The record-level operations on a store that has rolled over: the state   *)
(* three writeBlock calls of 40-byte bodies leave behind, the third of which *)
(* started blk file 1.                                                      *)
(***************************************************************************)
\* The store of a fresh DBPrivate, no file on disk
FreshStore ==
    [disk |-> [u \in BOOLEAN |-> [i \in FileIdx |-> NoFile]], vinfo |-> <<>>, nLast |-> 0,
     datafiles |-> <<>>, revertDatafiles |-> <<>>, heap |-> FreeHeap, dirty |-> {}]

\* Blocks::DB::writeBlock (BlocksDB.cpp:474-478) whose caller drops the buffer
AfterWriteBlock(S, size) ==
    LET r == writeBlock(S, Payload(size, FirstByte), 0, ForwardBlock, 0)
    IN Release(r.S, r.buf).S

\* The variables of the store hold S
StoreIs(S) ==
    /\ disk = S.disk
    /\ vinfoBlockFile = S.vinfo
    /\ nLastBlockFile = S.nLast
    /\ datafiles = S.datafiles
    /\ revertDatafiles = S.revertDatafiles
    /\ heap = S.heap
    /\ setDirtyFileInfo = S.dirty

\* The store after three calls of writeBlock with a body of 40 bytes, each
\* buffer released: that is AfterWriteBlock applied three times to FreshStore.
\* Two records fill blk00000 (grown twice by a chunk), the third one does not
\* fit (line 636) and starts blk00001 (grown once); the table of DataFiles
\* has been resized by the first mapFile (line 712) and every DataFile has been
\* deleted by the release of its last view.
RolledStore ==
    LET rec == RecordBytes(Payload(40, FirstByte), ForwardBlock, 0)
        file0 == rec \o rec \o Zeros(40 + 2 * BLOCKFILE_CHUNK_SIZE - 2 * Len(rec))
        file1 == rec \o Zeros(40 + BLOCKFILE_CHUNK_SIZE - Len(rec))
    IN [disk |-> [u \in BOOLEAN |-> [i \in FileIdx |->
                    IF u THEN FileData(IF i = 0 THEN file0 ELSE file1) ELSE NoFile]],
        vinfo |-> <<[nBlocks |-> 2, nSize |-> 2 * Len(rec), nUndoSize |-> 0],
                    [nBlocks |-> 1, nSize |-> Len(rec), nUndoSize |-> 0]>>,
        nLast |-> 1,
        datafiles |-> Resize(<<>>, 10),
        revertDatafiles |-> <<>>,
        heap |-> FreeHeap,
        dirty |-> {0, 1}]

RolledInit ==
    /\ HdrIdle
    /\ StoreIs(RolledStore)
    /\ views = <<>>
    /\ crashed = FALSE
    /\ opCount = ZeroCounts
    /\ written = {}
    /\ resizeState = [u \in BOOLEAN |-> [i \in FileIdx |-> "none"]]
    /\ ConcIdle
    /\ DbIdle

SpecRolled == RolledInit /\ [][StoreNext]_vars

(***************************************************************************)
(* Reads at positions the caller supplies, from files whose content the    *)
(* store did not necessarily write: loadBlock, loadUndoBlock and            *)
(* loadBlockFile on an existing file 0 and a missing (pruned) file 1.       *)
(***************************************************************************)
\* The number of reads of a run
MaxReads == 2

\* The payload length of the record the files start with
ReadPayloadSize == 4

\* What stands where the network magic of the first record should be
Framings == {MessageStart, <<0, 0, 0, 0>>}

\* What stands in the length word of the first record (little endian):
\* 4, 8, 36, 37, 2^31, 2^32 - 40, 2^32 - 8, 2^32 - 1
LengthWords == {<<4, 0, 0, 0>>, <<8, 0, 0, 0>>, <<36, 0, 0, 0>>, <<37, 0, 0, 0>>,
                <<0, 0, 0, 128>>, <<216, 255, 255, 255>>, <<248, 255, 255, 255>>,
                <<255, 255, 255, 255>>}

\* The positions the reads are addressed to
ReadPositions == {0, 3, 4, 8, 12, 43, 44, 2147483647}

\* A file that holds one undo-sized record (header, payload, checksum), with
\* the given bytes where the magic and the length word are
FramedFile(useBlk, magic, word) ==
    LET rec == RecordBytes(Payload(ReadPayloadSize, FirstByte), FALSE, 1)
    IN FileData(<<Byte(magic[1]), Byte(magic[2]), Byte(magic[3]), Byte(magic[4]),
                  Byte(word[1]), Byte(word[2]), Byte(word[3]), Byte(word[4])>>
                \o SubSeq(rec, HEADER_SIZE + 1, Len(rec)))

ReadInit ==
    /\ HdrIdle
    /\ \E magic \in Framings, word \in LengthWords :
          disk = [u \in BOOLEAN |-> [i \in FileIdx |->
                    IF i = 0 THEN FramedFile(u, magic, word) ELSE NoFile]]
    /\ vinfoBlockFile = <<>>
    /\ nLastBlockFile = 0
    /\ datafiles = <<>>
    /\ revertDatafiles = <<>>
    /\ heap = FreeHeap
    /\ setDirtyFileInfo = {}
    /\ views = <<>>
    /\ crashed = FALSE
    /\ opCount = ZeroCounts
    /\ written = {}
    /\ resizeState = [u \in BOOLEAN |-> [i \in FileIdx |-> "none"]]
    /\ ConcIdle
    /\ DbIdle

\* What the caller of a read observes, next to what the file was
ReadObserved(call, nFile, nPos, useBlk, r, empty) ==
    LET f == disk[useBlk][nFile]
    IN [n |-> lastRead.n + 1, call |-> call, nFile |-> nFile, nPos |-> nPos,
        useBlk |-> useBlk, exc |-> r.exc, empty |-> empty, lo |-> r.lo, hi |-> r.hi,
        beyond |-> r.beyond, present |-> f.exists, size |-> Len(f.data),
        framed |-> nPos >= HEADER_SIZE
                   /\ Bytes(Slice(f.data, nPos - HEADER_SIZE, nPos - 4)) = MessageStart]

\* Blocks::DB::loadBlock (BlocksDB.cpp:451-454) and Blocks::DB::loadUndoBlock
\* (456-459) with any position: blockHash is 0 for loadBlock
LoadAt(nFile, nPos, useBlk, blockHash) ==
    /\ ~crashed
    /\ lastRead.n < MaxReads
    /\ useBlk <=> blockHash = 0
    /\ \E r \in Outcomes(loadBlock(Store, nFile, nPos, useBlk, blockHash)) :
          /\ LoadResult(r)
          /\ lastRead' = ReadObserved("loadBlock", nFile, nPos, useBlk, r, FALSE)
    /\ UNCHANGED <<opCount, written, resizeState, hdrVars, concVars, metaDb,
                   isReindexing, indexMap, persisted, lastMeta>>

\* Blocks::DB::loadBlockFile (BlocksDB.cpp:461-472): the buffer of the whole
\* file but its last byte, an empty buffer for a file that cannot be opened
loadBlockFile(S, fileIndex) ==
    LET m == mapFile(S, fileIndex, ForwardBlock)
    IN IF m.exc = "ios_failure" \/ (m.exc = "none" /\ m.buf = 0)
       THEN [S |-> m.S, exc |-> "none", buf |-> 0, lo |-> 0, hi |-> 0, data |-> <<>>,
             beyond |-> FALSE, empty |-> TRUE]
       ELSE IF m.exc # "none"
       THEN [S |-> m.S, exc |-> m.exc, buf |-> 0, lo |-> 0, hi |-> 0, data |-> <<>>,
             beyond |-> FALSE, empty |-> FALSE]
       ELSE [S |-> m.S, exc |-> "none", buf |-> m.buf, lo |-> 0, hi |-> m.size - 1,
             data |-> Slice(Mapped(m.S, fileIndex, ForwardBlock, m.size), 0, m.size - 1),
             beyond |-> FALSE, empty |-> FALSE]

LoadBlockFile(fileIndex) ==
    /\ ~crashed
    /\ lastRead.n < MaxReads
    /\ LET r == loadBlockFile(Store, fileIndex)
       IN /\ r.exc # "bad_alloc"
          /\ IF r.empty THEN NoBuffer(r.S, FALSE)
             ELSE IF r.exc = "none"
             THEN \E keep \in BOOLEAN : TakeBuffer(r.S, r.buf, r.lo, r.hi, keep)
             ELSE NoBuffer(r.S, r.exc = "use_after_free")
          /\ lastRead' = ReadObserved("loadBlockFile", fileIndex, 0, ForwardBlock, r, r.empty)
    /\ UNCHANGED <<opCount, written, resizeState, hdrVars, concVars, metaDb,
                   isReindexing, indexMap, persisted, lastMeta>>

ReadNext ==
    \/ \E i \in FileIdx, p \in ReadPositions : LoadAt(i, p, ForwardBlock, 0)
    \/ \E i \in FileIdx, p \in ReadPositions, h \in Hashes : LoadAt(i, p, RevertBlock, h)
    \/ \E i \in FileIdx : LoadBlockFile(i)
    \/ \E k \in 1..MaxHeld : ReleaseView(k)

SpecRead == ReadInit /\ [][ReadNext]_vars

(***************************************************************************)
(* The metadata side of Blocks::DB: the reindexing flag, WriteBatchSync,    *)
(* appendBlock, CacheAllBlockInfos and the creation of a new instance.      *)
(***************************************************************************)
\* The values a caller puts into the location, header, status and count
\* fields of an entry
EntryProfiles ==
    {[nFile |-> 0, nDataPos |-> 8, nUndoPos |-> 0, nVersion |-> 1, hashMerkleRoot |-> 1,
      nTime |-> 1, nBits |-> 1, nNonce |-> 1, nStatus |-> 8, nTx |-> 1],
     [nFile |-> 1, nDataPos |-> 36, nUndoPos |-> 8, nVersion |-> 2, hashMerkleRoot |-> 2,
      nTime |-> 2, nBits |-> 2, nNonce |-> 2, nStatus |-> 24, nTx |-> 2]}

\* A CBlockIndex of the caller: the block b (its hash), linked to its parent,
\* with the given height and field values
BlockIndexOf(b, height, v) ==
    [present |-> TRUE, hash |-> b, pprev |-> pprev(b), pskip |-> NULL, nHeight |-> height,
     nFile |-> v.nFile, nDataPos |-> v.nDataPos, nUndoPos |-> v.nUndoPos,
     nVersion |-> v.nVersion, hashMerkleRoot |-> v.hashMerkleRoot, nTime |-> v.nTime,
     nBits |-> v.nBits, nNonce |-> v.nNonce, nStatus |-> v.nStatus, nTx |-> v.nTx]

\* The entries a caller persists: the height is the one of the block, or 0
\* where it has not been set
CallerEntries ==
    UNION {{BlockIndexOf(b, height, v) : height \in {0, nHeight(b)}, v \in EntryProfiles} :
           b \in MetaBlocks}

\* CDiskBlockIndex(pindex): the row written for an entry; hashPrev is the hash
\* of the parent entry, null without one
CDiskBlockIndex(e) ==
    [present |-> TRUE, decodes |-> TRUE, hash |-> e.hash,
     hashPrev |-> IF e.pprev # NULL THEN e.pprev ELSE 0,
     nHeight |-> e.nHeight, nFile |-> e.nFile, nDataPos |-> e.nDataPos,
     nUndoPos |-> e.nUndoPos, nVersion |-> e.nVersion,
     hashMerkleRoot |-> e.hashMerkleRoot, nTime |-> e.nTime, nBits |-> e.nBits,
     nNonce |-> e.nNonce, nStatus |-> e.nStatus, nTx |-> e.nTx]

\* InsertBlockIndex (BlocksDB.cpp:45-63): the map after the call; the pointer
\* returned is the hash itself, NULL for the null hash
InsertBlockIndex(map, hash) ==
    IF hash = 0 THEN map
    ELSE IF map[hash].present THEN map
    ELSE [map EXCEPT ![hash] = NullBlockIndex]

\* (mutation of LinkParent: the parent is not looked up)
LinkParent_null(map, hashPrev) == [map |-> map, pprev |-> NULL]

\* Line 363: pindexNew->pprev = InsertBlockIndex(diskindex.hashPrev)
LinkParent(map, hashPrev) == [map |-> InsertBlockIndex(map, hashPrev), pprev |-> hashPrev]

\* (mutation of LoadRow: nStatus is not copied)
LoadRow_noStatus(map, row) ==
    LET m1 == InsertBlockIndex(map, row.hash)
        link == LinkParent(m1, row.hashPrev)
    IN [link.map EXCEPT ![row.hash] =
           [present |-> TRUE, pprev |-> link.pprev, pskip |-> m1[row.hash].pskip,
            nHeight |-> row.nHeight, nFile |-> row.nFile, nDataPos |-> row.nDataPos,
            nUndoPos |-> row.nUndoPos, nVersion |-> row.nVersion,
            hashMerkleRoot |-> row.hashMerkleRoot, nTime |-> row.nTime,
            nBits |-> row.nBits, nNonce |-> row.nNonce, nStatus |-> m1[row.hash].nStatus,
            nTx |-> row.nTx]]

\* Lines 362-375: the entry of one decoded row
LoadRow(map, row) ==
    LET m1 == InsertBlockIndex(map, row.hash)
        link == LinkParent(m1, row.hashPrev)
    IN [link.map EXCEPT ![row.hash] =
           [present |-> TRUE, pprev |-> link.pprev, pskip |-> m1[row.hash].pskip,
            nHeight |-> row.nHeight, nFile |-> row.nFile, nDataPos |-> row.nDataPos,
            nUndoPos |-> row.nUndoPos, nVersion |-> row.nVersion,
            hashMerkleRoot |-> row.hashMerkleRoot, nTime |-> row.nTime,
            nBits |-> row.nBits, nNonce |-> row.nNonce, nStatus |-> row.nStatus,
            nTx |-> row.nTx]]

\* The loop of lines 355-384 from the k-th row of the cursor on: the map, the
\* greatest file index and whether every row decoded
RECURSIVE LoadRows(_, _, _, _)
LoadRows(db, map, k, maxFile) ==
    IF k > Len(HashOrder) THEN [map |-> map, maxFile |-> maxFile, ok |-> TRUE]
    ELSE LET row == db.rows[HashOrder[k]]
         IN IF ~row.present THEN LoadRows(db, map, k + 1, maxFile)
            ELSE IF ~row.decodes THEN [map |-> map, maxFile |-> maxFile, ok |-> FALSE]
            ELSE LoadRows(db, LoadRow(map, row), k + 1, Max(row.nFile, maxFile))

\* CBlockIndex::GetSkipHeight
RECURSIVE LowestOne(_)
LowestOne(n) == IF n % 2 = 1 THEN 1 ELSE 2 * LowestOne(n \div 2)

\* n & (n - 1)
InvertLowestOne(n) == IF n = 0 THEN 0 ELSE n - LowestOne(n)

GetSkipHeight(height) ==
    IF height < 2 THEN 0
    ELSE IF height % 2 = 1 THEN InvertLowestOne(InvertLowestOne(height - 1)) + 1
    ELSE InvertLowestOne(height)

\* the entry `steps` parent links above p, NULL where the links end
RECURSIVE Above(_, _, _)
Above(map, p, steps) ==
    IF p = NULL \/ steps = 0 THEN p ELSE Above(map, map[p].pprev, steps - 1)

\* CBlockIndex::BuildSkip: the ancestor of the parent at the skip height
BuildSkip(map, h) ==
    LET e == map[h]
        target == GetSkipHeight(e.nHeight)
    IN IF e.pprev = NULL THEN map
       ELSE IF target > map[e.pprev].nHeight THEN [map EXCEPT ![h].pskip = NULL]
       ELSE [map EXCEPT ![h].pskip = Above(map, e.pprev, map[e.pprev].nHeight - target)]

\* Lines 388-390: BuildSkip of every entry, in the order of the map
RECURSIVE BuildSkips(_, _)
BuildSkips(map, k) ==
    IF k > Len(HashOrder) THEN map
    ELSE BuildSkips(IF map[HashOrder[k]].present THEN BuildSkip(map, HashOrder[k]) ELSE map,
                    k + 1)

MetaInit == HdrIdle /\ StoreIdle

\* What the last call was: its argument and result, whether it was made on an
\* instance that had just been created, the last setIsReindexing before it if
\* that returned true, and the rows the store could not decode during the call
MetaCall(call, arg, ret, fresh) ==
    [n |-> lastMeta.n + 1, call |-> call, arg |-> arg, ret |-> ret, fresh |-> fresh,
     before |-> IF lastMeta.call = "setIsReindexing" /\ lastMeta.ret
                THEN (IF lastMeta.arg THEN "set" ELSE "cleared")
                ELSE "none",
     unreadable |-> {}]

\* Blocks::DB::setIsReindexing (BlocksDB.cpp:299-307).  The Write or Erase of
\* the store succeeds (stored) or fails.
SetIsReindexing(fReindexing, stored) ==
    /\ lastMeta.n < MaxMetaCalls
    /\ IF isReindexing = fReindexing
       THEN /\ stored
            /\ UNCHANGED <<isReindexing, metaDb>>
            /\ lastMeta' = MetaCall("setIsReindexing", fReindexing, TRUE, FALSE)
       ELSE /\ isReindexing' = fReindexing
            /\ metaDb' = IF stored THEN [metaDb EXCEPT !.reindex = fReindexing] ELSE metaDb
            /\ lastMeta' = MetaCall("setIsReindexing", fReindexing, stored, FALSE)
    /\ UNCHANGED <<indexMap, persisted, lastRead, hdrVars, storeVars, concVars>>

\* the rows of the store after the writes of the batch, in their order
RECURSIVE BatchRows(_, _, _)
BatchRows(rows, blockinfo, k) ==
    IF k > Len(blockinfo) THEN rows
    ELSE BatchRows([rows EXCEPT ![blockinfo[k].hash] = CDiskBlockIndex(blockinfo[k])],
                   blockinfo, k + 1)

RECURSIVE BatchFiles(_, _, _)
BatchFiles(files, fileInfo, k) ==
    IF k > Len(fileInfo) THEN files
    ELSE BatchFiles([files EXCEPT ![fileInfo[k].nFile] =
                        [present |-> TRUE, info |-> fileInfo[k].info]],
                    fileInfo, k + 1)

\* Blocks::DB::WriteBatchSync (BlocksDB.cpp:313-323): one atomic batch
WriteBatchSync(db, fileInfo, nLastFile, blockinfo) ==
    [reindex |-> db.reindex, last |-> nLastFile,
     files |-> BatchFiles(db.files, fileInfo, 1),
     rows |-> BatchRows(db.rows, blockinfo, 1)]

RECURSIVE Remember(_, _, _)
Remember(seen, blockinfo, k) ==
    IF k > Len(blockinfo) THEN seen
    ELSE Remember([seen EXCEPT ![blockinfo[k].hash] = blockinfo[k]], blockinfo, k + 1)

BatchDone(call, fileInfo, nLastFile, blockinfo, stored) ==
    /\ metaDb' = IF stored THEN WriteBatchSync(metaDb, fileInfo, nLastFile, blockinfo)
                 ELSE metaDb
    /\ persisted' = IF stored THEN Remember(persisted, blockinfo, 1) ELSE persisted
    /\ lastMeta' = MetaCall(call, FALSE, stored, FALSE)
    /\ UNCHANGED <<isReindexing, indexMap, lastRead, hdrVars, storeVars, concVars>>

\* The file infos a caller passes to WriteBatchSync
FileInfoLists == {<<>>, <<[nFile |-> 0, info |-> NewFileInfo]>>}

WriteBatchSyncCall(fileInfo, nLastFile, blockinfo, stored) ==
    /\ lastMeta.n < MaxMetaCalls
    /\ BatchDone("WriteBatchSync", fileInfo, nLastFile, blockinfo, stored)

\* Blocks::DB::appendBlock (BlocksDB.cpp:551-557)
AppendBlock(block, lastBlockFile, stored) ==
    /\ lastMeta.n < MaxMetaCalls
    /\ BatchDone("appendBlock", <<>>, lastBlockFile, <<block>>, stored)

\* The tables of a deleted DBPrivate: ~DBPrivate (BlocksDB.cpp:591-599) deletes
\* every DataFile they hold
RECURSIVE DeleteAll(_, _, _)
DeleteAll(heapNow, list, k) ==
    IF k > Len(list) THEN heapNow
    ELSE DeleteAll(IF list[k] = 0 THEN heapNow
                   ELSE [heapNow EXCEPT ![list[k]] = DeletedDataFile], list, k + 1)

\* Blocks::DB::createInstance (BlocksDB.cpp:255-260) and the constructor
\* (282-288): the map is cleared, the old instance deleted, the flag read from
\* the store, which fWipe empties first
CreateInstance(fWipe) ==
    /\ lastMeta.n < MaxMetaCalls
    /\ indexMap' = EmptyIndexMap
    /\ metaDb' = IF fWipe THEN EmptyDb ELSE metaDb
    /\ persisted' = IF fWipe THEN EmptyIndexMap ELSE persisted
    /\ isReindexing' = IF fWipe THEN FALSE ELSE Exists(metaDb)
    /\ headersChain' = <<>>
    /\ headerChainTips' = <<>>
    /\ heap' = DeleteAll(DeleteAll(heap, datafiles, 1), revertDatafiles, 1)
    /\ datafiles' = <<>>
    /\ revertDatafiles' = <<>>
    /\ lastMeta' = MetaCall("createInstance", fWipe, TRUE, FALSE)
    /\ UNCHANGED <<pindexBestHeader, failedBlocks, hdrCrashed, hdrLast, hdrLin, impVars, disk,
                   vinfoBlockFile, nLastBlockFile, setDirtyFileInfo, views, crashed,
                   opCount, written, resizeState, lastRead, concVars>>

\* The store as the cursor of a call sees it when the values of the rows of
\* bad are damaged: CDBIterator::GetValue catches the decoding exception and
\* returns false (line 361 takes the else branch of line 379)
Damaged(db, bad) ==
    [db EXCEPT !.rows = [h \in MetaBlocks |->
                            IF h \in bad /\ db.rows[h].present
                            THEN [db.rows[h] EXCEPT !.decodes = FALSE]
                            ELSE db.rows[h]]]

\* The damage a call meets: none, or one row
DamagedRows == {{}} \cup {{h} : h \in MetaBlocks}

\* Blocks::DB::CacheAllBlockInfos (BlocksDB.cpp:348-398)
CacheAllBlockInfos(bad) ==
    /\ lastMeta.n < MaxMetaCalls
    /\ \A h \in bad : metaDb.rows[h].present
    /\ LET r == LoadRows(Damaged(metaDb, bad), indexMap, 1, 0)
       IN /\ indexMap' = IF r.ok THEN BuildSkips(r.map, 1) ELSE r.map
          /\ datafiles' = IF r.ok THEN Resize(datafiles, r.maxFile) ELSE datafiles
          /\ revertDatafiles' = IF r.ok THEN Resize(revertDatafiles, r.maxFile)
                                ELSE revertDatafiles
          /\ lastMeta' = [MetaCall("CacheAllBlockInfos", FALSE, r.ok,
                                   lastMeta.call = "createInstance")
                             EXCEPT !.unreadable = bad]
          /\ accessLog' = IF r.ok THEN accessLog \cup CacheAccesses ELSE accessLog
    /\ UNCHANGED <<metaDb, isReindexing, persisted, lastRead, hdrVars, disk,
                   vinfoBlockFile, nLastBlockFile, heap, setDirtyFileInfo, views, crashed,
                   opCount, written, resizeState, threads, csOwner, readLog, lockLog>>

MetaNext ==
    \/ \E b \in BOOLEAN, stored \in BOOLEAN : SetIsReindexing(b, stored)
    \/ \E e \in CallerEntries, stored \in BOOLEAN : AppendBlock(e, 0, stored)
    \/ \E f \in FileInfoLists, e1 \in CallerEntries, e2 \in CallerEntries,
          stored \in BOOLEAN :
          /\ e1.hash < e2.hash
          /\ WriteBatchSyncCall(f, 0, <<e1, e2>>, stored)
    \/ \E fWipe \in BOOLEAN : CreateInstance(fWipe)
    \/ \E bad \in DamagedRows : CacheAllBlockInfos(bad)

SpecMeta == MetaInit /\ [][MetaNext]_vars

\* Views of the block and undo files are taken and released while the index is
\* written to the metadata store and loaded from it.
CacheNext ==
    \/ \E i \in FileIdx, u \in BOOLEAN : MapFileCall(i, u)
    \/ \E k \in 1..MaxViews : ReleaseView(k)
    \/ \E e \in CallerEntries, stored \in BOOLEAN : AppendBlock(e, 0, stored)
    \/ \E bad \in DamagedRows : CacheAllBlockInfos(bad)

SpecCache == MapInit /\ [][CacheNext]_vars

(***************************************************************************)
(* The import thread: reimportBlockFiles and LoadExternalBlockFile.  A     *)
(* block is its hash; block 1 is the genesis block, block 2 its child and  *)
(* block 3 the child of block 2.  ProcessNewBlock, ReadBlockFromDisk,      *)
(* InitBlockIndex and ShutdownRequested are functions of the node.         *)
(***************************************************************************)
ImportBlocks == {1, 2, 3}
ImpGenesis == 1
hashPrevBlock(b) == b - 1

\* The orders in which the blocks can lie in the files
ImportOrders ==
    {s \in [1..3 -> ImportBlocks] : \A i, j \in 1..3 : s[i] = s[j] => i = j}

\* blk00000.dat and blk00001.dat: the blocks in some order, cut in two
BlockFileLayouts ==
    {<<SubSeq(s, 1, k), SubSeq(s, k + 1, 3)>> : s \in ImportOrders, k \in 0..3}

\* bootstrap.dat, or the file of -loadblock: absent, or the blocks in order, or
\* every block ahead of its parent
ExternalFiles == {<<>>, <<1, 2, 3>>, <<3, 2, 1>>}

\* ProcessNewBlock: the block is accepted when it passes validation and
\* connects to a block of the index.
ProcessNewBlock(I, b) ==
    b \notin I.invalid /\ (b = ImpGenesis \/ hashPrevBlock(b) \in I.known)

\* Lines 142-152: the entries of one equal_range, in the order of insertion.
\* Each block is read back and processed; an accepted one is pushed on the
\* queue; the entry is erased.
RECURSIVE ProcessRange(_, _, _)
ProcessRange(I, range, pushed) ==
    IF range = <<>> THEN [I |-> I, pushed |-> pushed]
    ELSE LET b == Head(range).block
             ok == ProcessNewBlock(I, b)
             I1 == [I EXCEPT !.called = Append(@, b),
                             !.known = IF ok THEN @ \cup {b} ELSE @,
                             !.accepted = IF ok THEN @ \cup {b} ELSE @]
         IN ProcessRange(I1, Tail(range), IF ok THEN Append(pushed, b) ELSE pushed)

\* Lines 131-154: the successors of a block that were met before it.
RECURSIVE ProcessQueue(_, _)
ProcessQueue(I, queue) ==
    IF queue = <<>> THEN I
    ELSE LET head == Head(queue)
             IsChild(e) == e.parent = head
             IsOther(e) == e.parent # head
             r == ProcessRange([I EXCEPT !.unknownParent = SelectSeq(@, IsOther)],
                               SelectSeq(I.unknownParent, IsChild), <<>>)
         IN ProcessQueue(r.I, Tail(queue) \o r.pushed)

\* Lines 76-157: one turn of the loop of LoadExternalBlockFile, for the block
\* b of the file.  dbp is null when the file is not a block file of the node;
\* sysError: state.IsError() after ProcessNewBlock.  `stop` is the break.
LoadExternalBlock(I, b, dbp, sysError) ==
    IF b # ImpGenesis /\ hashPrevBlock(b) \notin I.known
    THEN [I |-> IF dbp
                THEN [I EXCEPT !.unknownParent =
                                   Append(@, [parent |-> hashPrevBlock(b), block |-> b]),
                               !.queued = @ \cup {b}]
                ELSE [I EXCEPT !.dropped = @ \cup {b}],
          stop |-> FALSE]
    ELSE IF b \in I.known
    THEN [I |-> ProcessQueue(I, <<b>>), stop |-> FALSE]
    ELSE LET ok == ~sysError /\ ProcessNewBlock(I, b)
             I1 == [I EXCEPT !.called = Append(@, b),
                             !.known = IF ok THEN @ \cup {b} ELSE @,
                             !.accepted = IF ok THEN @ \cup {b} ELSE @]
         IN IF sysError THEN [I |-> I1, stop |-> TRUE]
            ELSE [I |-> ProcessQueue(I1, <<b>>), stop |-> FALSE]

\* The import thread is started on a node whose block files and external file
\* are given, in reindex mode or not.
ImportInit ==
    /\ ChainIdle
    /\ \E blk \in BlockFileLayouts, ext \in ExternalFiles, invalid \in SUBSET ImportBlocks :
          importer = [phase |-> "start", blk |-> blk, ext |-> ext, invalid |-> invalid,
                      nFile |-> 0, pos |-> 0, known |-> {}, unknownParent |-> <<>>,
                      queued |-> {}, called |-> <<>>, accepted |-> {}, dropped |-> {},
                      replayed |-> <<>>, shutdown |-> FALSE, cleared |-> FALSE]
    /\ disk = [u \in BOOLEAN |-> [i \in FileIdx |-> NoFile]]
    /\ vinfoBlockFile = <<>>
    /\ nLastBlockFile = 0
    /\ datafiles = <<>>
    /\ revertDatafiles = <<>>
    /\ heap = FreeHeap
    /\ setDirtyFileInfo = {}
    /\ views = <<>>
    /\ crashed = FALSE
    /\ opCount = ZeroCounts
    /\ written = {}
    /\ resizeState = [u \in BOOLEAN |-> [i \in FileIdx |-> "none"]]
    /\ ConcIdle
    /\ lastRead = NoRead
    /\ isReindexing \in BOOLEAN
    /\ metaDb = [EmptyDb EXCEPT !.reindex = isReindexing]
    /\ indexMap = EmptyIndexMap
    /\ persisted = EmptyIndexMap
    /\ lastMeta = NoMetaCall

\* reimportBlockFiles, lines 181-188: the mode is read from the store.
ImportStart ==
    /\ importer.phase = "start"
    /\ importer' = [importer EXCEPT !.phase = IF isReindexing THEN "reindex" ELSE "bootstrap"]
    /\ UNCHANGED <<headerChainTips, headersChain, pindexBestHeader, failedBlocks, hdrCrashed,
                   hdrLast, hdrLin, storeVars, concVars, dbVars>>

\* Lines 190-198: the head of the reindex loop.  The loop ends when shutdown
\* has been requested, when blk<nFile> does not exist, or when it cannot be
\* opened; otherwise the file is handed to LoadExternalBlockFile.
ReindexNextFile(opens) ==
    /\ importer.phase = "reindex"
    /\ importer' =
          IF importer.shutdown \/ importer.nFile >= Len(importer.blk) \/ ~opens
          THEN [importer EXCEPT !.phase = "finish"]
          ELSE [importer EXCEPT !.phase = "file", !.pos = 1,
                                !.replayed = Append(@, importer.nFile)]
    /\ UNCHANGED <<headerChainTips, headersChain, pindexBestHeader, failedBlocks, hdrCrashed,
                   hdrLast, hdrLin, storeVars, concVars, dbVars>>

\* LoadExternalBlockFile, lines 76-157: the next block of the file that is
\* being read, or its end (and line 199, nFile++).
LoadExternalBlockFile(sysError) ==
    /\ importer.phase \in {"file", "extfile"}
    /\ LET dbp == importer.phase = "file"
           file == IF dbp THEN importer.blk[importer.nFile + 1] ELSE importer.ext
           atEnd == [importer EXCEPT !.phase = IF dbp THEN "reindex" ELSE "done",
                                     !.nFile = IF dbp THEN @ + 1 ELSE @, !.pos = 0]
       IN IF importer.pos > Len(file)
          THEN ~sysError /\ importer' = atEnd
          ELSE LET r == LoadExternalBlock(importer, file[importer.pos], dbp, sysError)
               IN importer' = IF r.stop
                              THEN [r.I EXCEPT !.pos = Len(file) + 1]
                              ELSE [r.I EXCEPT !.pos = @ + 1]
    /\ UNCHANGED <<headerChainTips, headersChain, pindexBestHeader, failedBlocks, hdrCrashed,
                   hdrLast, hdrLin, storeVars, concVars, dbVars>>

\* Lines 201-205: setIsReindexing(false), whose Erase is stored or fails, and
\* InitBlockIndex, which gives a node without genesis block its genesis block.
ReindexFinish(stored) ==
    /\ importer.phase = "finish"
    /\ importer' = [importer EXCEPT !.phase = "bootstrap", !.cleared = TRUE,
                                    !.known = @ \cup {ImpGenesis}]
    /\ isReindexing' = FALSE
    /\ metaDb' = IF stored THEN [metaDb EXCEPT !.reindex = FALSE] ELSE metaDb
    /\ lastMeta' = MetaCall("setIsReindexing", FALSE, stored, FALSE)
    /\ UNCHANGED <<headerChainTips, headersChain, pindexBestHeader, failedBlocks, hdrCrashed,
                   hdrLast, hdrLin, storeVars, concVars, lastRead, indexMap, persisted>>

\* Lines 208-233: bootstrap.dat, or a file of -loadblock, is handed to
\* LoadExternalBlockFile without a position.
ImportExternal ==
    /\ importer.phase = "bootstrap"
    /\ importer' = IF importer.ext = <<>> THEN [importer EXCEPT !.phase = "done"]
                   ELSE [importer EXCEPT !.phase = "extfile", !.pos = 1]
    /\ UNCHANGED <<headerChainTips, headersChain, pindexBestHeader, failedBlocks, hdrCrashed,
                   hdrLast, hdrLin, storeVars, concVars, dbVars>>

\* StartShutdown() is called while the import thread runs.
RequestShutdown ==
    /\ importer.phase \notin {"none", "done"}
    /\ ~importer.shutdown
    /\ importer' = [importer EXCEPT !.shutdown = TRUE]
    /\ UNCHANGED <<headerChainTips, headersChain, pindexBestHeader, failedBlocks, hdrCrashed,
                   hdrLast, hdrLin, storeVars, concVars, dbVars>>

ImportNext ==
    \/ ImportStart
    \/ \E opens \in BOOLEAN : ReindexNextFile(opens)
    \/ \E sysError \in BOOLEAN : LoadExternalBlockFile(sysError)
    \/ \E stored \in BOOLEAN : ReindexFinish(stored)
    \/ ImportExternal
    \/ RequestShutdown

SpecImport == ImportInit /\ [][ImportNext]_vars

(***************************************************************************)
(* Thread-level specification: writeBlock, writeUndoBlock, loadBlock and   *)
(* loadUndoBlock called from several threads.  A step is what a thread does *)
(* under one hold of the mutex `lock`, or one atomic operation on a use     *)
(* count; cs_LastBlockFile is held for the whole of writeBlock.            *)
(***************************************************************************)
\* The number of writes of a run
MaxConcWrites == 2
\* The payload sizes the threads write: every record, with its checksum, fits
\* the chunk its file grows by.
ConcBodySizes == {20}
ConcUndoSizes == {2}

ConcInit == HdrIdle /\ StoreIdle

\* The mutexes thread t holds outside the functions above
HeldBy(t) == IF csOwner = t THEN {"cs_LastBlockFile"} ELSE {}

SetThread(t, th) == threads' = [threads EXCEPT ![t] = th]

\* posInFile of writeBlock (line 664) for the call of thread th
PosInFile(th) ==
    IF th.useBlk THEN vinfoBlockFile[th.nFile + 1].nSize
    ELSE vinfoBlockFile[th.nFile + 1].nUndoSize

\* writeBlock, lines 632-659: take cs_LastBlockFile, roll over, create the file.
ConcWriteStart(t, size, useBlk, blockHash, fileIndex) ==
    /\ ~crashed
    /\ threads[t].pc = "idle"
    /\ csOwner = 0
    /\ opCount.nWrites < MaxConcWrites
    /\ IF useBlk
       THEN /\ size < MAX_BLOCKFILE_SIZE - HEADER_SIZE
            /\ StartFile(Store, fileIndex, useBlk, size).nFile \in FileIdx
       ELSE size > 0 /\ fileIndex < Len(vinfoBlockFile)
    /\ LET st == StartFile(Store, fileIndex, useBlk, size)
       IN /\ SetStore(st.S)
          /\ SetThread(t, [IdleThread EXCEPT !.pc = "wMap", !.useBlk = useBlk,
                                             !.nFile = st.nFile,
                                             !.block = Payload(size, FirstByte),
                                             !.hash = blockHash])
    /\ csOwner' = t
    /\ opCount' = [opCount EXCEPT !.nWrites = @ + 1]
    /\ Logged(RollOverAccesses)
    /\ LockLogged({LockEvent("writeBlock", "cs_LastBlockFile", HeldBy(t))}
                     \cup (IF StartFile(Store, fileIndex, useBlk, size).S.disk # disk
                           THEN {LockEvent("writeBlock", "lock", {"cs_LastBlockFile"})}
                           ELSE {}))
    /\ UNCHANGED <<views, crashed, written, resizeState, readLog, hdrVars, dbVars>>

\* writeBlock, lines 661-666: mapFile and the room check.  An exception of
\* mapFile leaves the function.
ConcWriteMap(t) ==
    /\ ~crashed
    /\ threads[t].pc = "wMap"
    /\ LET th == threads[t]
           m == mapFile(Store, th.nFile, th.useBlk)
       IN /\ m.exc # "bad_alloc"
          /\ SetStore(m.S)
          /\ crashed' = (m.exc = "use_after_free")
          /\ SetThread(t, IF m.exc # "none" THEN [th EXCEPT !.pc = "wUnwind"]
                          ELSE [th EXCEPT !.buf = m.buf, !.size = m.size,
                                          !.pc = IF NeedsResize(PosInFile(th), Len(th.block),
                                                                m.size)
                                                 THEN "wGrow" ELSE "wStore"])
    /\ Logged(MapFileAccesses(Store, threads[t].nFile, threads[t].useBlk, HeldBy(t)))
    /\ LockLogged({LockEvent("mapFile", "lock", HeldBy(t))})
    /\ UNCHANGED <<views, opCount, written, resizeState, csOwner, readLog, hdrVars, dbVars>>

\* writeBlock, lines 667-674: resize the file and notify, under the mutex.
ConcWriteGrow(t) ==
    /\ ~crashed
    /\ threads[t].pc = "wGrow"
    /\ SetStore(GrowFile(Store, threads[t].nFile, threads[t].useBlk, threads[t].size))
    /\ SetThread(t, [threads[t] EXCEPT !.pc = "wRemap"])
    /\ Logged(GrowAccesses)
    /\ LockLogged({LockEvent("writeBlock", "lock", HeldBy(t))})
    /\ UNCHANGED <<views, crashed, opCount, written, resizeState, csOwner, readLog, hdrVars, dbVars>>

\* writeBlock, line 675: the second mapFile.  The assignment to buf, or the
\* unwinding after an exception, then releases the buffer of the old mapping.
ConcWriteRemap(t) ==
    /\ ~crashed
    /\ threads[t].pc = "wRemap"
    /\ LET th == threads[t]
           m == mapFile(Store, th.nFile, th.useBlk)
       IN /\ m.exc # "bad_alloc"
          /\ SetStore(m.S)
          /\ crashed' = (m.exc = "use_after_free")
          /\ SetThread(t, IF m.exc # "none"
                          THEN [th EXCEPT !.pc = "drop", !.drop = th.buf, !.buf = 0,
                                          !.size = 0, !.next = "wUnwind"]
                          ELSE [th EXCEPT !.pc = "drop", !.drop = th.buf, !.buf = m.buf,
                                          !.size = m.size, !.next = "wStore"])
    /\ Logged(MapFileAccesses(Store, threads[t].nFile, threads[t].useBlk, HeldBy(t)))
    /\ LockLogged({LockEvent("mapFile", "lock", HeldBy(t))})
    /\ UNCHANGED <<views, opCount, written, resizeState, csOwner, readLog, hdrVars, dbVars>>

\* writeBlock, lines 678-701: store the record, return the buffer to the
\* caller, leave cs_LastBlockFile.  A store beyond the mapping may end the
\* process.
ConcWriteStore(t) ==
    /\ ~crashed
    /\ threads[t].pc = "wStore"
    /\ LET th == threads[t]
           r == StoreRecord(Store, th.nFile, th.useBlk, th.block, th.hash, th.buf, th.size)
       IN /\ SetStore(r.S)
          /\ \E die \in (IF r.overflow THEN BOOLEAN ELSE {FALSE}) :
                crashed' = (die \/ r.fault # "none")
          /\ IF r.fault = "none"
             THEN /\ written' = written \cup {WrittenRecord(opCount.nWrites, r, th.useBlk, th.block,
                                                          th.hash)}
                  /\ SetThread(t, [IdleThread EXCEPT !.pc = "hold", !.buf = th.buf])
                  /\ csOwner' = 0
             ELSE UNCHANGED <<written, threads, csOwner>>
    /\ UNCHANGED <<views, opCount, resizeState, readLog, accessLog, lockLog, hdrVars, dbVars>>

\* writeBlock left by an exception: cs_LastBlockFile is released.
ConcWriteUnwind(t) ==
    /\ ~crashed
    /\ threads[t].pc = "wUnwind"
    /\ SetThread(t, IdleThread)
    /\ csOwner' = 0
    /\ UNCHANGED <<storeVars, readLog, accessLog, lockLog, hdrVars, dbVars>>

\* What a completed read adds to the observation readLog
ReadOutcome(seq, exc, data, expected) ==
    [seq |-> seq, exc |-> exc, same |-> (exc = "none" /\ data = expected)]

\* loadBlock / loadUndoBlock, lines 603-608, with the position of the completed
\* write w and the parent hash of that write: mapFile.
ConcReadMap(t, w) ==
    /\ ~crashed
    /\ threads[t].pc = "idle"
    /\ w.pos >= 4
    /\ LET m == mapFile(Store, w.file, w.useBlk)
       IN /\ m.exc # "bad_alloc"
          /\ SetStore(m.S)
          /\ crashed' = (m.exc = "use_after_free")
          /\ IF m.exc # "none"
             THEN /\ readLog' = readLog \cup {ReadOutcome(w.seq, m.exc, <<>>, w.data)}
                  /\ UNCHANGED threads
             ELSE /\ SetThread(t, [IdleThread EXCEPT !.pc = "rRead", !.buf = m.buf,
                                                     !.size = m.size, !.useBlk = w.useBlk,
                                                     !.nFile = w.file, !.nPos = w.pos,
                                                     !.block = w.data,
                                                     !.hash = IF w.useBlk THEN 0 ELSE w.hash,
                                                     !.seq = w.seq])
                  /\ UNCHANGED readLog
    /\ Logged(MapFileAccesses(Store, w.file, w.useBlk, HeldBy(t)))
    /\ LockLogged({LockEvent("mapFile", "lock", HeldBy(t))})
    /\ UNCHANGED <<views, opCount, written, resizeState, csOwner, hdrVars, dbVars>>

\* loadBlock / loadUndoBlock, lines 609-625: the checks and the payload, read
\* through the mapping.  An exception releases the buffer.
ConcReadRecord(t) ==
    /\ ~crashed
    /\ threads[t].pc = "rRead"
    /\ LET th == threads[t]
           r == ReadRecord(Mapped(Store, th.nFile, th.useBlk, th.size), th.size, th.nPos,
                           th.hash)
       IN /\ readLog' = readLog \cup {ReadOutcome(th.seq, r.exc, r.data, th.block)}
          /\ SetThread(t, IF r.exc # "none"
                          THEN [IdleThread EXCEPT !.pc = "drop", !.drop = th.buf]
                          ELSE [IdleThread EXCEPT !.pc = "hold", !.buf = th.buf])
    /\ UNCHANGED <<accessLog, lockLog>>
    /\ UNCHANGED <<storeVars, csOwner, hdrVars, dbVars>>

\* The caller lets go of the buffer a call returned.
ConcDrop(t) ==
    /\ ~crashed
    /\ threads[t].pc = "hold"
    /\ SetThread(t, [IdleThread EXCEPT !.pc = "drop", !.drop = threads[t].buf])
    /\ UNCHANGED <<storeVars, csOwner, readLog, accessLog, lockLog, hdrVars, dbVars>>

\* ~shared_ptr<char>, first half: the atomic decrement of the use count.  The
\* thread that brings it to zero goes on to run the cleanup lambda.
ConcReleaseDec(t) ==
    /\ ~crashed
    /\ threads[t].pc = "drop"
    /\ LET th == threads[t]
           S1 == DecRef(Store, th.drop)
       IN /\ SetStore(S1)
          /\ SetThread(t, IF S1.heap[th.drop].refs = 0
                          THEN [th EXCEPT !.pc = "cleanup"]
                          ELSE [th EXCEPT !.pc = th.next, !.next = "idle", !.drop = 0])
    /\ LockLogged({LockEvent("release", "view", ReleaseHeld(HeldBy(t)))})
    /\ UNCHANGED <<views, crashed, opCount, written, resizeState, csOwner, readLog, accessLog, hdrVars, dbVars>>

\* ~shared_ptr<char>, second half: the cleanup lambda (lines 726-738), which
\* takes the mutex first.
ConcReleaseCleanup(t) ==
    /\ ~crashed
    /\ threads[t].pc = "cleanup"
    /\ LET th == threads[t]
           r == cleanupLambda(Store, th.drop)
       IN /\ SetStore(r.S)
          /\ crashed' = (r.fault # "none")
          /\ SetThread(t, [th EXCEPT !.pc = th.next, !.next = "idle", !.drop = 0])
    /\ Logged(CleanupAccesses(HeldBy(t)))
    /\ LockLogged({LockEvent("cleanupLambda", "lock", ReleaseHeld(HeldBy(t)))})
    /\ UNCHANGED <<views, opCount, written, resizeState, csOwner, readLog, hdrVars, dbVars>>

ConcNext ==
    \/ \E t \in Threads, size \in ConcBodySizes : ConcWriteStart(t, size, ForwardBlock, 0, 0)
    \/ \E t \in Threads, size \in ConcUndoSizes, h \in Hashes, i \in FileIdx :
          ConcWriteStart(t, size, RevertBlock, h, i)
    \/ \E t \in Threads : ConcWriteMap(t)
    \/ \E t \in Threads : ConcWriteGrow(t)
    \/ \E t \in Threads : ConcWriteRemap(t)
    \/ \E t \in Threads : ConcWriteStore(t)
    \/ \E t \in Threads : ConcWriteUnwind(t)
    \/ \E t \in Threads, w \in written : ConcReadMap(t, w)
    \/ \E t \in Threads : ConcReadRecord(t)
    \/ \E t \in Threads : ConcDrop(t)
    \/ \E t \in Threads : ConcReleaseDec(t)
    \/ \E t \in Threads : ConcReleaseCleanup(t)

SpecConc == ConcInit /\ [][ConcNext]_vars

(***************************************************************************)
(* Properties of the mapping tables                                        *)
(***************************************************************************)
\* Every buffer a caller holds is backed by a DataFile that is neither freed
\* nor unmapped, and lies inside its mapping.
ViewsLive ==
    \A k \in 1..Len(views) :
        /\ views[k].df \in 1..Len(heap)
        /\ ~heap[views[k].df].deleted
        /\ heap[views[k].df].open
        /\ heap[views[k].df].refs >= 1
        /\ views[k].hi <= heap[views[k].df].filesize

\* The number of buffers the callers hold on DataFile df
Holders(df) == Cardinality({k \in 1..Len(views) : views[k].df = df})

\* The table entry of a file
EntryNow(useBlk, fileIndex) == Entry(Table(Store, useBlk), fileIndex)

\* The step frees DataFile df.
Freed(df) == ~heap[df].deleted /\ heap'[df].deleted

\* C4: once a file has been resized on disk and fileHasGrown (for a block file)
\* or revertFileHasGrown (for an undo file) has been called with its index, a
\* call of mapFile for it succeeds and reports the size the file has on disk,
\* whatever buffers of older mappings are still held.
C4_MapAfterGrownReportsNewSize ==
    [][\A i \in FileIdx, u \in BOOLEAN :
          (resizeState[u][i] = "notified" /\ MapFileCall(i, u)) =>
              /\ mapFile(Store, i, u).exc = "none"
              /\ mapFile(Store, i, u).size = Len(disk[u][i].data)
              /\ \E k \in 1..Len(views') :
                    /\ views'[k].df = mapFile(Store, i, u).buf
                    /\ views'[k].hi = Len(disk[u][i].data)]_vars

\* a buffer of the old size is still held while a buffer of the new mapping of
\* the same, resized and notified, file reports the new size
C4_Witness ==
    \E i \in FileIdx, u \in BOOLEAN :
        /\ resizeState[u][i] = "notified"
        /\ Len(disk[u][i].data) = InitFileSize + ExtendBy
        /\ \E k, m \in 1..Len(views) :
              /\ views[k].df # views[m].df
              /\ heap[views[k].df].fileIndex = i /\ heap[views[k].df].useBlk = u
              /\ heap[views[m].df].fileIndex = i /\ heap[views[m].df].useBlk = u
              /\ views[k].hi = InitFileSize
              /\ views[m].hi = InitFileSize + ExtendBy
              /\ EntryNow(u, i) = views[m].df

\* C5: a held buffer stays backed by a live DataFile; a DataFile is freed only
\* by the release of the last buffer held on it; and the release of a buffer of
\* an older mapping leaves the table entry of the newer mapping in place.
C5_ViewsStayBacked ==
    [][/\ ViewsLive'
       /\ \A df \in 1..Len(heap) :
             Freed(df) => (Holders(df) = 1 /\ Holders(df)' = 0)
       /\ \A k \in 1..Len(views), i \in FileIdx, u \in BOOLEAN :
             (/\ ReleaseView(k)
              /\ heap[views[k].df].fileIndex = i
              /\ heap[views[k].df].useBlk = u
              /\ EntryNow(u, i) # views[k].df) => EntryNow(u, i)' = EntryNow(u, i)]_vars

\* the old DataFile of a resized and notified file has been freed by the release
\* of its buffer while the newer mapping is in the table and its buffer is held
C5_Witness ==
    /\ heap[1].deleted /\ ~heap[2].deleted /\ Len(views) = 1
    /\ \E i \in FileIdx, u \in BOOLEAN :
          /\ resizeState[u][i] = "notified"
          /\ EntryNow(u, i) = 2
          /\ views[1].df = 2
          /\ views[1].hi = InitFileSize + ExtendBy

(***************************************************************************)
(* Properties of the records                                               *)
(***************************************************************************)
\* loadBlock / loadUndoBlock in the current state with the position of the
\* written record w and the parent hash h (0 for a body)
ReadBack(w, h) == loadBlock(Store, w.file, w.pos, w.useBlk, h)

\* The records written before w into the same file of the same role
Earlier(w) == {v \in written : v.useBlk = w.useBlk /\ v.file = w.file /\ v.seq < w.seq}

\* v is the record written last before w into the same file
Previous(v, w) == v \in Earlier(w) /\ \A x \in Earlier(w) : x.seq <= v.seq

\* C1: loadBlock with the position a writeBlock returned yields a payload of
\* the length and the bytes that writeBlock was given, whatever writes (with
\* roll-over to a new file or growth of the file) came before or after it.
C1_BodyRoundTrip ==
    ~crashed =>
        \A w \in written :
            w.useBlk => /\ ReadBack(w, 0).exc = "none"
                        /\ ReadBack(w, 0).data = w.data

\* C2: loadUndoBlock with the position a writeUndoBlock returned succeeds with
\* the identical payload for the parent hash of the write, and fails with an
\* error, without a payload, for any other parent hash.
C2_UndoChecksumBinding ==
    ~crashed =>
        \A w \in written, h \in Hashes :
            ~w.useBlk =>
                IF h = w.hash
                THEN ReadBack(w, h).exc = "none" /\ ReadBack(w, h).data = w.data
                ELSE ReadBack(w, h).exc # "none" /\ ReadBack(w, h).data = <<>>

\* C3: the first record written to a fresh file is returned at position 8, and
\* a body record that follows another one in the same file is returned at the
\* position of that one plus its payload length plus 8.
C3_PositionArithmetic ==
    \A w \in written :
        /\ Earlier(w) = {} => w.pos = HEADER_SIZE
        /\ \A v \in written :
              (w.useBlk /\ Previous(v, w)) => w.pos = v.pos + Len(v.data) + HEADER_SIZE

\* two body records in the first block file at 8 and at 8 + length + 8, and a
\* body record at 8 in the block file the store rolled over to
C3_Witness ==
    /\ \E v, w \in written :
          /\ v.useBlk /\ w.useBlk /\ v.file = 0 /\ w.file = 0
          /\ v.pos = 8 /\ w.pos = 16 + Len(v.data)
    /\ \E w \in written : w.useBlk /\ w.file = 1 /\ w.pos = 8

\* C6: whatever the interleaving of the writing and the reading threads, a
\* read with the position a completed write returned passes the checks of
\* loadBlock and returns the payload of that write.
C6_ReadAfterCompletedWrite ==
    \A x \in readLog : x.exc = "none" /\ x.same

(***************************************************************************)
(* Properties of the chain tracker                                         *)
(***************************************************************************)
HeightIndexed(chain) == \A h \in 1..Len(chain) : chain[h] # NULL /\ nHeight(chain[h]) = h - 1

\* The last call was made with a failed block whose parent was a tracked tip.
FailedChildOfTip ==
    /\ hdrLast.n > 0 /\ ~hdrCrashed
    /\ ~hdrLast.valid
    /\ pprev(hdrLast.block) \in ListSet(hdrLast.tipsBefore)

\* No block from b down to genesis is marked failed.
RECURSIVE ValidBranch(_)
ValidBranch(b) == b = NULL \/ (b \notin failedBlocks /\ ValidBranch(pprev(b)))

\* The last call appended a valid block of a branch that forks off the canonical
\* one, both branches valid, the canonical chain already holding a block at the
\* same height, and the appended block carrying strictly more cumulative work
\* than the canonical tip.
GreaterWorkFork ==
    /\ hdrLast.n > 0 /\ ~hdrCrashed
    /\ hdrLast.valid
    /\ hdrLast.tipBefore # NULL
    /\ ValidBranch(hdrLast.block) /\ ValidBranch(hdrLast.tipBefore)
    /\ ~IsAncestorOrSelf(hdrLast.block, hdrLast.tipBefore)
    /\ ~IsAncestorOrSelf(hdrLast.tipBefore, hdrLast.block)
    /\ Len(hdrLast.chainBefore) > nHeight(hdrLast.block)
    /\ nChainWork(hdrLast.block) > nChainWork(hdrLast.tipBefore)

\* C7: after genesis and K valid blocks appended in order, each built directly on
\* the previous one, appendHeader has returned true K times, headerChain() has
\* K+1 entries, entry h has height h and the last entry is the K-th block.
C7_InOrderAppend ==
    (hdrLin.ok /\ hdrLin.k >= 0) =>
        /\ hdrLin.trues = hdrLin.k
        /\ Len(headersChain) = hdrLin.k + 1
        /\ HeightIndexed(headersChain)
        /\ ChainTip(headersChain) = hdrLin.top

C7_Witness == hdrLin.ok /\ hdrLin.k = 2 /\ hdrLin.trues = 2 /\ Len(headersChain) = 3

\* C8: after appendHeader of a failed block whose parent was the tip of a tracked
\* branch, the parent is a tracked tip, the failed block is not a tracked tip and
\* the failed block is not in headerChain().
C8_FailedBlockNotInChain ==
    FailedChildOfTip =>
        /\ pprev(hdrLast.block) \in ListSet(headerChainTips)
        /\ hdrLast.block \notin ListSet(headerChainTips)
        /\ ~ChainContains(headersChain, hdrLast.block)

\* C9: appendHeader of a valid greater-work block of a forking branch returns
\* true and makes headerChain() end at that block.
C9_GreaterWorkBranchWins ==
    GreaterWorkFork =>
        /\ hdrLast.ret
        /\ ChainTip(headersChain) = hdrLast.block
        /\ HeightIndexed(headersChain)

\* C10: appendHeader returns true if and only if headerChain().Tip() after the
\* call differs from headerChain().Tip() before the call.
C10_ReturnIffTipChanged ==
    (hdrLast.n > 0 /\ ~hdrCrashed) =>
        (hdrLast.ret <=> ChainTip(headersChain) # hdrLast.tipBefore)

\* C11: after every appendHeader call no tracked tip has strictly more
\* cumulative work than the tip of headerChain().
C11_ChainEndsAtGreatestWorkTip ==
    (hdrLast.n > 0 /\ ~hdrCrashed) =>
        /\ ChainTip(headersChain) # NULL
        /\ \A k \in 1..Len(headerChainTips) :
              headerChainTips[k] # NULL =>
                  nChainWork(headerChainTips[k]) <= nChainWork(ChainTip(headersChain))

\* C12: headerChain() contains no block that was failed when it was passed to
\* appendHeader.
C12_NoFailedBlockInChain ==
    ~hdrCrashed => \A b \in failedBlocks : ~ChainContains(headersChain, b)

\* C13: a loadBlock or loadUndoBlock addressed to a file that does not exist
\* ends with an explicit empty result, not with an exception.
C13_MissingFileGivesAbsentResult ==
    (lastRead.n > 0 /\ lastRead.call = "loadBlock" /\ lastRead.nPos >= 4
        /\ ~lastRead.present) =>
        (lastRead.exc = "none" /\ lastRead.empty)

\* C14: loadBlock returns a view only for a position p with 4 <= p < mapped
\* size and p + L (+ 32 for an undo record) <= mapped size, and reads no
\* checksum after the mapped size.
C14_ViewWithinMappedSize ==
    (lastRead.n > 0 /\ lastRead.call = "loadBlock") =>
        /\ lastRead.exc # "segv"
        /\ lastRead.exc = "none" =>
              /\ lastRead.nPos >= 4
              /\ lastRead.nPos < lastRead.size
              /\ ~lastRead.beyond
              /\ lastRead.hi <= lastRead.size

\* C15: loadBlock at a position whose record header does not start with the
\* network magic raises an error instead of returning a view.
C15_MalformedHeaderRejected ==
    (lastRead.n > 0 /\ lastRead.call = "loadBlock" /\ lastRead.present
        /\ lastRead.nPos >= HEADER_SIZE /\ ~lastRead.framed) =>
        lastRead.exc # "none"

\* C16: after the room check and the grow step of a body write, the whole
\* record [used, used + 8 + L) lies inside the mapping it is written through.
C16_BodyRecordInsideMapping ==
    \A w \in written : w.useBlk => ~w.overflow

\* C17: after the room check and the grow step of an undo write, the whole
\* record with its checksum [used, used + 8 + L + 32) lies inside the mapping
\* it is written through.
C17_UndoRecordInsideMapping ==
    \A w \in written : ~w.useBlk => ~w.overflow

\* C18: after setIsReindexing(b) returned true, isReindexing() returns b, and
\* an instance created next over the same metadata store starts with
\* isReindexing() = b.
C18_ReindexFlagPersisted ==
    /\ (lastMeta.call = "setIsReindexing" /\ lastMeta.ret) => isReindexing = lastMeta.arg
    /\ (lastMeta.call = "createInstance" /\ ~lastMeta.arg /\ lastMeta.before # "none") =>
          isReindexing = (lastMeta.before = "set")

\* the fields that CacheAllBlockInfos copies are those of the entry e
SameFields(m, e) ==
    /\ m.nHeight = e.nHeight
    /\ m.nFile = e.nFile
    /\ m.nDataPos = e.nDataPos
    /\ m.nUndoPos = e.nUndoPos
    /\ m.nVersion = e.nVersion
    /\ m.hashMerkleRoot = e.hashMerkleRoot
    /\ m.nTime = e.nTime
    /\ m.nBits = e.nBits
    /\ m.nNonce = e.nNonce
    /\ m.nStatus = e.nStatus
    /\ m.nTx = e.nTx

\* CacheAllBlockInfos has returned true on an instance created just before
Reloaded ==
    lastMeta.call = "CacheAllBlockInfos" /\ lastMeta.ret /\ lastMeta.fresh

\* C19: every entry persisted with appendBlock or WriteBatchSync is rebuilt by
\* CacheAllBlockInfos on a freshly created instance under the same hash, with
\* the same height, locations, header fields, status and count, and with its
\* parent link at the map entry of its stored parent hash.
C19_PersistReloadRoundTrip ==
    Reloaded =>
        \A h \in MetaBlocks :
            persisted[h].present =>
                /\ indexMap[h].present
                /\ SameFields(indexMap[h], persisted[h])
                /\ indexMap[h].pprev = persisted[h].pprev
                /\ persisted[h].pprev # NULL => indexMap[persisted[h].pprev].present

C19_Witness ==
    /\ Reloaded
    /\ \E h \in MetaBlocks :
          /\ persisted[h].present
          /\ persisted[h].pprev # NULL
          /\ persisted[h].nFile = 1
          /\ indexMap[h].present
          /\ indexMap[h].nStatus = 24

\* C20 as stated: after CacheAllBlockInfos every entry of the map other than
\* genesis has a non-null parent link that resolves to an entry of the map.
C20_EveryEntryHasParentEntry ==
    (lastMeta.call = "CacheAllBlockInfos" /\ lastMeta.ret) =>
        \A h \in MetaBlocks :
            (indexMap[h].present /\ h # Genesis) =>
                /\ indexMap[h].pprev # NULL
                /\ indexMap[indexMap[h].pprev].present

\* C20 amended: after CacheAllBlockInfos every entry of the map that was built
\* from a persisted record with a non-null parent hash has its parent link at
\* the map entry of that hash; an entry that was created only as the parent of
\* another one has a null parent link.
C20_LoadedEntryHasParentEntry ==
    (lastMeta.call = "CacheAllBlockInfos" /\ lastMeta.ret) =>
        \A h \in MetaBlocks :
            /\ (metaDb.rows[h].present /\ metaDb.rows[h].hashPrev # 0) =>
                  /\ indexMap[h].present
                  /\ indexMap[h].pprev = metaDb.rows[h].hashPrev
                  /\ indexMap[indexMap[h].pprev].present
            /\ (indexMap[h].present /\ ~metaDb.rows[h].present /\ lastMeta.fresh) =>
                  indexMap[h].pprev = NULL

C20_Witness ==
    /\ Reloaded
    /\ metaDb.rows[4].present
    /\ ~metaDb.rows[2].present
    /\ indexMap[4].pprev = 2
    /\ indexMap[2].present
    /\ indexMap[2].pprev = NULL

\* C21: while a buffer of the mapping that the table holds for a file is held
\* (no notification has cleared the entry), a call of mapFile for that file
\* returns that mapping and its size, also when the file on disk has been
\* extended since.
C21_CachedMappingReturnedAsIs ==
    [][\A i \in FileIdx, u \in BOOLEAN :
          (/\ MapFileCall(i, u)
           /\ EntryNow(u, i) # 0
           /\ Holders(EntryNow(u, i)) >= 1) =>
              /\ mapFile(Store, i, u).exc = "none"
              /\ mapFile(Store, i, u).buf = EntryNow(u, i)
              /\ mapFile(Store, i, u).size = heap[EntryNow(u, i)].filesize
              /\ \A k \in 1..Len(views) :
                    views[k].df = EntryNow(u, i) => views[k].hi = mapFile(Store, i, u).size
              /\ \A k \in 1..Len(views') :
                    views'[k].df = EntryNow(u, i) => views'[k].hi = mapFile(Store, i, u).size
              /\ EntryNow(u, i)' = EntryNow(u, i)]_vars

\* two buffers of one mapping of the old size are held while the file on disk is
\* longer and no notification has been made
C21_Witness ==
    \E i \in FileIdx, u \in BOOLEAN :
        /\ resizeState[u][i] = "resized"
        /\ Len(disk[u][i].data) = InitFileSize + ExtendBy
        /\ EntryNow(u, i) # 0
        /\ heap[EntryNow(u, i)].refs = 2
        /\ heap[EntryNow(u, i)].filesize = InitFileSize
        /\ \E k, m \in 1..Len(views) :
              /\ k # m
              /\ views[k].df = EntryNow(u, i) /\ views[m].df = EntryNow(u, i)
              /\ views[k].hi = InitFileSize /\ views[m].hi = InitFileSize

\* the entries of the table other than the one of fileIndex are the same
\* after the step
OtherEntriesKept(useBlk, fileIndex) ==
    /\ Len(Table(Store, useBlk)') = Len(Table(Store, useBlk))
    /\ \A j \in 0..(Len(Table(Store, useBlk)) - 1) :
          j # fileIndex => EntryNow(useBlk, j)' = EntryNow(useBlk, j)

\* C22: fileHasGrown(i) changes only the entry i of the body table and
\* revertFileHasGrown(i) only the entry i of the undo table; with an index
\* that is negative or not below the table size they change nothing.
C22_NotificationFrame ==
    [][\A i \in NotifyArgs :
          /\ FileHasGrownCall(i) =>
                /\ OtherEntriesKept(TRUE, i)
                /\ revertDatafiles' = revertDatafiles
                /\ heap' = heap /\ disk' = disk /\ views' = views
                /\ (i < 0 \/ i >= Len(datafiles)) => datafiles' = datafiles
          /\ RevertFileHasGrownCall(i) =>
                /\ OtherEntriesKept(FALSE, i)
                /\ datafiles' = datafiles
                /\ heap' = heap /\ disk' = disk /\ views' = views
                /\ (i < 0 \/ i >= Len(revertDatafiles)) =>
                      revertDatafiles' = revertDatafiles]_vars

\* fileHasGrown(0) has cleared the body entry of file 0, whose old mapping is
\* still held, and the undo entry of file 0 is in place with its buffer
C22_Witness ==
    /\ resizeState[TRUE][0] = "notified"
    /\ EntryNow(TRUE, 0) = 0
    /\ EntryNow(FALSE, 0) # 0
    /\ \E k, m \in 1..Len(views) :
          /\ heap[views[k].df].useBlk /\ heap[views[k].df].fileIndex = 0
          /\ views[m].df = EntryNow(FALSE, 0)

\* The last call appended a valid block of a branch that forks off the canonical
\* one, the appended block carrying exactly the cumulative work of the canonical
\* tip.
EqualWorkFork ==
    /\ hdrLast.n > 0 /\ ~hdrCrashed
    /\ hdrLast.valid
    /\ hdrLast.tipBefore # NULL
    /\ ~IsAncestorOrSelf(hdrLast.block, hdrLast.tipBefore)
    /\ ~IsAncestorOrSelf(hdrLast.tipBefore, hdrLast.block)
    /\ nChainWork(hdrLast.block) = nChainWork(hdrLast.tipBefore)

\* C23: appendHeader of a valid block of a branch other than the canonical one,
\* whose cumulative work equals the work of the canonical tip, returns false and
\* leaves headerChain() as it was.
C23_EqualWorkKeepsChain ==
    EqualWorkFork =>
        /\ ~hdrLast.ret
        /\ headersChain = hdrLast.chainBefore

C23_Witness ==
    /\ EqualWorkFork
    /\ hdrLast.block \in ListSet(headerChainTips)
    /\ hdrLast.block \notin ListSet(hdrLast.tipsBefore)
    /\ ChainTip(headersChain) = hdrLast.tipBefore

\* The last call passed a failed block that was a tracked tip, or an ancestor of
\* one, when the call began.
FailedAncestorOfTip ==
    /\ hdrLast.n > 0 /\ ~hdrCrashed
    /\ ~hdrLast.valid
    /\ \E k \in 1..Len(hdrLast.tipsBefore) :
          IsAncestorOrSelf(hdrLast.block, hdrLast.tipsBefore[k])

\* C24: after appendHeader of a failed block that is a tracked tip or an ancestor
\* of tracked tips, no tracked tip is the block or has it as an ancestor.
C24_FailedBranchesCapped ==
    FailedAncestorOfTip =>
        \A k \in 1..Len(headerChainTips) :
            ~IsAncestorOrSelf(hdrLast.block, headerChainTips[k])

\* C25: the entries of headerChainTips() are pairwise distinct, and at most one
\* of them is headerChain().Tip().
C25_TipsDistinct ==
    ~hdrCrashed =>
        /\ \A j, k \in 1..Len(headerChainTips) :
              j # k => headerChainTips[j] # headerChainTips[k]
        /\ Cardinality({k \in 1..Len(headerChainTips) :
                           headerChainTips[k] = ChainTip(headersChain)}) <= 1

\* C26: no entry of headerChainTips() is a strict ancestor of another entry.
C26_NoTipAncestorOfTip ==
    ~hdrCrashed =>
        \A j, k \in 1..Len(headerChainTips) :
            headerChainTips[j] # headerChainTips[k] =>
                ~IsAncestorOrSelf(headerChainTips[j], headerChainTips[k])

\* The last call was CacheAllBlockInfos and the store held a row whose value
\* could not be decoded.
UndecodableRow ==
    /\ lastMeta.call = "CacheAllBlockInfos"
    /\ lastMeta.unreadable # {}

\* The last call was CacheAllBlockInfos, every row decoded, and the row of h
\* and the row of its parent hash carry heights that do not differ by one.
HeightMismatch(h) ==
    /\ lastMeta.call = "CacheAllBlockInfos"
    /\ lastMeta.unreadable = {}
    /\ metaDb.rows[h].present
    /\ metaDb.rows[h].hashPrev # 0
    /\ metaDb.rows[metaDb.rows[h].hashPrev].present
    /\ metaDb.rows[h].nHeight # metaDb.rows[metaDb.rows[h].hashPrev].nHeight + 1

\* C27, first half: CacheAllBlockInfos returns false when a row of the store
\* cannot be decoded.
C27_UndecodableRowFails == UndecodableRow => ~lastMeta.ret

\* C27: CacheAllBlockInfos returns false when a row of the store cannot be
\* decoded, and when the height of a rebuilt entry is not the height of its
\* parent plus one.
C27_LoadFailsOnBadRow ==
    /\ UndecodableRow => ~lastMeta.ret
    /\ \A h \in MetaBlocks : HeightMismatch(h) => ~lastMeta.ret

\* The bytes used in the body file of the active index; none before the file
\* has its CBlockFileInfo.
UsedInActiveFile ==
    IF Len(vinfoBlockFile) > nLastBlockFile THEN vinfoBlockFile[nLastBlockFile + 1].nSize
    ELSE 0

\* C28: a body write of L bytes goes to the active file, unless the bytes used
\* in it plus L plus 8 exceed MAX_BLOCKFILE_SIZE: then the active index grows
\* by exactly one, the file of the new index is created and the record is its
\* first one, at position 8.  The active index never decreases and an undo
\* write does not change it.
C28_RollOverRule ==
    [][/\ \A L \in BodySizes :
             WriteBlock(L) =>
                 LET full == UsedInActiveFile + L + HEADER_SIZE > MAX_BLOCKFILE_SIZE
                 IN /\ nLastBlockFile' = nLastBlockFile + (IF full THEN 1 ELSE 0)
                    /\ full => /\ disk'[ForwardBlock][nLastBlockFile'].exists
                               /\ ~disk[ForwardBlock][nLastBlockFile'].exists
                    /\ \A w \in written' \ written :
                          /\ w.useBlk
                          /\ w.file = nLastBlockFile'
                          /\ full => w.pos = HEADER_SIZE
       /\ \A L \in UndoSizes, h \in Hashes, i \in FileIdx :
             WriteUndoBlock(L, h, i) => nLastBlockFile' = nLastBlockFile
       /\ nLastBlockFile' >= nLastBlockFile]_vars

C28_Witness ==
    /\ nLastBlockFile = 1
    /\ \E w \in written : w.useBlk /\ w.file = 0 /\ w.pos > HEADER_SIZE
    /\ \E w \in written : w.useBlk /\ w.file = 1 /\ w.pos = HEADER_SIZE
    /\ vinfoBlockFile[1].nSize + 40 + HEADER_SIZE > MAX_BLOCKFILE_SIZE

\* The size on disk of a file, 0 for a file that does not exist
DiskSize(useBlk, fileIndex) == Len(disk[useBlk][fileIndex].data)

\* The used-bytes counter of a file (nSize or nUndoSize), 0 without a
\* CBlockFileInfo
Used(useBlk, fileIndex) ==
    IF fileIndex + 1 > Len(vinfoBlockFile) THEN 0
    ELSE IF useBlk THEN vinfoBlockFile[fileIndex + 1].nSize
    ELSE vinfoBlockFile[fileIndex + 1].nUndoSize

\* C29, the order of the steps: the step of a write that resizes the file on
\* disk is the step that clears the table entry (one hold of the mutex), it
\* leaves the counters alone; the step after it maps the file again and leaves
\* the file and the counters alone; a counter is advanced only by the storing
\* step, which comes after these, through a mapping of the size the file has on
\* disk.
C29_GrowThenNotifyThenRemap ==
    [][\A t \in Threads :
          /\ ConcWriteGrow(t) =>
                /\ DiskSize(threads[t].useBlk, threads[t].nFile)' =
                      DiskSize(threads[t].useBlk, threads[t].nFile)
                          + ChunkSize(threads[t].useBlk)
                /\ EntryNow(threads[t].useBlk, threads[t].nFile)' = 0
                /\ vinfoBlockFile' = vinfoBlockFile
                /\ threads'[t].pc = "wRemap"
          /\ (threads[t].pc = "wGrow" /\ threads'[t] # threads[t]) => ConcWriteGrow(t)
          /\ (threads[t].pc = "wRemap" /\ threads'[t] # threads[t]) =>
                /\ ConcWriteRemap(t)
                /\ disk' = disk
                /\ vinfoBlockFile' = vinfoBlockFile
                /\ threads'[t].next = "wStore" =>
                      threads'[t].size = DiskSize(threads[t].useBlk, threads[t].nFile)
          /\ (threads[t].pc # "wStore" /\ threads'[t].pc = "wStore") =>
                \/ threads[t].pc \in {"drop", "cleanup"} /\ threads[t].next = "wStore"
                \/ /\ threads[t].pc = "wMap"
                   /\ ~NeedsResize(PosInFile(threads[t]), Len(threads[t].block),
                                   threads'[t].size)
          /\ (threads[t].pc = "wStore" /\ ConcWriteStore(t)) =>
                threads[t].size = DiskSize(threads[t].useBlk, threads[t].nFile)
          /\ \A i \in FileIdx, u \in BOOLEAN :
                (Used(u, i)' # Used(u, i) /\ threads'[t] # threads[t]) =>
                    ConcWriteStore(t) /\ threads[t].nFile = i /\ threads[t].useBlk = u]_vars

\* C29: in a write that grows a file the file is resized on disk, the grown
\* notification issued, the file mapped again and only then the used-bytes
\* counter advanced; no counter is ever advanced past the size its file has on
\* disk.
C29_CounterWithinFileOnDisk ==
    \A i \in FileIdx, u \in BOOLEAN : Used(u, i) <= DiskSize(u, i)

\* C30: every read and every modification of the DataFile tables and of
\* nLastBlockFile is made while the mutex `lock` of the file store is held.
C30_AccessesUnderLock ==
    \A a \in accessLog : "lock" \in a.held

\* The bytes a record takes in its file: header, payload and, for an undo
\* record, the checksum
RecordLen(w) == HEADER_SIZE + Len(w.data) + (IF w.useBlk THEN 0 ELSE CHECKSUM_SIZE)

\* The bytes of the file at the payload of the record w
PayloadOnDisk(d, w) == Slice(d[w.useBlk][w.file].data, w.pos, w.pos + Len(w.data))

\* C33: per file and role the used-bytes counter never decreases; a write
\* starts at the previous value of the counter and advances it by L + 8 (body)
\* or L + 8 + 32 (undo); the records of one file do not overlap, and a later
\* write leaves the bytes at a position returned earlier as they were.
C33_AppendOnly ==
    [][/\ \A i \in FileIdx, u \in BOOLEAN : Used(u, i)' >= Used(u, i)
       /\ \A w \in written' \ written :
             /\ w.pos = Used(w.useBlk, w.file) + HEADER_SIZE
             /\ Used(w.useBlk, w.file)' = Used(w.useBlk, w.file) + RecordLen(w)
             /\ \A v \in written :
                   (v.useBlk = w.useBlk /\ v.file = w.file) =>
                       v.pos - HEADER_SIZE + RecordLen(v) <= w.pos - HEADER_SIZE
       /\ \A v \in written :
             /\ PayloadOnDisk(disk', v) = PayloadOnDisk(disk, v)
             /\ ~v.overflow => PayloadOnDisk(disk', v) = v.data]_vars

C33_Witness ==
    \E v, w \in written :
        /\ v.useBlk /\ w.useBlk /\ v.file = 0 /\ w.file = 0
        /\ v.pos = HEADER_SIZE
        /\ w.pos = v.pos + RecordLen(v)
        /\ Used(TRUE, 0) = w.pos + Len(w.data)
        /\ PayloadOnDisk(disk, v) = v.data
        /\ \E x \in written : ~x.useBlk /\ x.file = 0

\* C34: whenever headerChain() is not empty after an appendHeader call, its tip
\* is one of the tracked tips.
C34_ChainTipIsTrackedTip ==
    (hdrLast.n > 0 /\ ~hdrCrashed /\ Len(headersChain) > 0) =>
        ChainTip(headersChain) \in ListSet(headerChainTips)

\* C35: appendHeader does not read headerChain().Tip() of an empty chain; the
\* first call on a fresh tracker, whatever its block, ends without that read.
C35_NoNullTipRead == ~hdrCrashed

\* The DataFiles behind the buffers thread t holds: the one a call got from
\* mapFile, and the one it is about to release
HeldDataFiles(t) ==
    (IF threads[t].buf # 0 THEN {threads[t].buf} ELSE {})
        \cup (IF threads[t].pc = "drop" /\ threads[t].drop # 0 THEN {threads[t].drop} ELSE {})

\* Every buffer a thread holds is backed by a DataFile that is neither deleted
\* nor unmapped and whose use count counts it.
ViewsAlive ==
    \A t \in Threads : \A df \in HeldDataFiles(t) :
        /\ ~heap[df].deleted
        /\ heap[df].open
        /\ heap[df].refs >= 1

\* C36: whatever the interleaving of a thread that releases the last buffer of
\* a mapping (the use count reaches zero, the cleanup then takes the mutex)
\* with a thread that calls mapFile for the same file, no DataFile is deleted
\* or unmapped while a buffer handed out by mapFile refers to it, and no
\* DataFile is deleted twice.
C36_NoFreeUnderView ==
    [][/\ ViewsAlive
       /\ ViewsAlive'
       /\ \A t \in Threads :
             ConcReleaseCleanup(t) =>
                 /\ ~heap[threads[t].drop].deleted
                 /\ heap[threads[t].drop].refs = 0
                 /\ ~crashed'
       /\ \A t \in Threads : (ConcWriteMap(t) \/ ConcWriteRemap(t)) => ~crashed'
       /\ \A t \in Threads, w \in written : ConcReadMap(t, w) => ~crashed']_vars

\* A thread has brought the use count of the mapping of blk file 0 to zero and
\* has not run the cleanup yet; in this window another thread has called
\* mapFile for the file.
C36_Witness ==
    \E t, o \in Threads :
        /\ t # o
        /\ threads[t].pc = "cleanup"
        /\ heap[threads[t].drop].fileIndex = 0
        /\ heap[threads[t].drop].useBlk
        /\ Entry(datafiles, 0) = threads[t].drop
        /\ threads[o].pc = "wUnwind"
        /\ threads[o].useBlk /\ threads[o].nFile = 0

\* The call writes through a mapping that was opened with write access (or
\* ends before it writes).
WritesThroughWritable(r) ==
    /\ r.fault # "segv"
    /\ (r.exc = "none" /\ r.buf # 0) => r.S.heap[r.buf].writable

\* C37: every write of writeBlock and of writeUndoBlock goes through a mapping
\* that was opened with write access, whatever file index it targets: also an
\* undo write for a file below the active body file.
C37_WritesThroughWritableMapping ==
    [][/\ \A L \in BodySizes :
             WriteBlock(L) =>
                 WritesThroughWritable(writeBlock(Store, Payload(L, FirstByte), 0,
                                                  ForwardBlock, 0))
       /\ \A L \in UndoSizes, h \in Hashes, i \in FileIdx :
             WriteUndoBlock(L, h, i) =>
                 WritesThroughWritable(writeBlock(Store, Payload(L, FirstByte), i,
                                                  RevertBlock, h))]_vars

C39_FlagFollowsStore ==
    /\ isReindexing = metaDb.reindex
    /\ (lastMeta.call = "setIsReindexing" /\ ~lastMeta.ret) => isReindexing # lastMeta.arg

\* C40: the assertion of the cleanup lambda (0 <= fileIndex < size of the
\* table of the role) holds whenever a view is released, also after
\* CacheAllBlockInfos has resized both tables.
C40_CleanupAssertionHolds ==
    [][\A k \in 1..MaxViews :
          ReleaseView(k) =>
              (heap[views[k].df].refs = 1 => cleanupLambda(DecRef(Store, views[k].df),
                                                           views[k].df).fault # "assert")]_vars

\* C31: a block of an imported file whose parent is not in the index is
\* queued under the hash of its parent, never dropped; once a block has been
\* accepted no queue entry keyed by its hash remains, and every block that
\* was queued under it has been handed to ProcessNewBlock.
C31_OutOfOrderBlocksQueued ==
    importer.phase # "none" =>
        /\ importer.dropped = {}
        /\ \A k \in 1..Len(importer.unknownParent) :
              importer.unknownParent[k].parent \notin importer.accepted
        /\ \A b \in importer.queued :
              hashPrevBlock(b) \in importer.accepted =>
                  \E k \in 1..Len(importer.called) : importer.called[k] = b

\* C32: the block files are replayed in the order 0, 1, 2, ..., and when the
\* reindexing flag has been cleared every block file that exists has been
\* replayed.
C32_ReindexReplaysEveryFile ==
    importer.phase # "none" =>
        /\ importer.replayed = [k \in 1..Len(importer.replayed) |-> k - 1]
        /\ importer.cleared => Len(importer.replayed) = Len(importer.blk)

====
